---- MODULE Spec2Model ----
(***************************************************************************)
(* A model of the stock_stalker decision core:                             *)
(*   - TradingStateMachine  (agents/state_machine.py)                      *)
(*   - TimelineValidator    (data/validators/timeline_validator.py)        *)
(*   - EvidenceValidator    (data/validators/evidence_validator.py)        *)
(*   - ConvictionAgent, ResearchAgent, ExecutionAgent, RiskAgent (agents/) *)
(*   - Event, TradeScenario, TradePlan, Position (models/)                 *)
(* Each component has its own specification: SpecSM for the state machine, *)
(* SpecTL for validate on lists of any events and SpecGroup for validate   *)
(* on the events of one reconciliation group, SpecEV for                   *)
(* EvidenceValidator.validate followed by TimelineValidator.validate,      *)
(* SpecScore for ConvictionAgent.score, SpecScenario for TradeScenario,    *)
(* SpecPlan for ExecutionAgent.create_plan, SpecFlow for the chain of      *)
(* run_workflow from validate to assess, SpecEvent for Event, SpecSplit    *)
(* for validate called twice on lists of two interleaved groups,           *)
(* SpecResearch for ResearchAgent.analyze, SpecRisk for RiskAgent.assess,  *)
(* SpecPosition for Position.  The variables a specification does not use  *)
(* stay at their idle values.                                              *)
(***************************************************************************)
EXTENDS Integers, Sequences, FiniteSets, TLC

VARIABLES
    initial_state, \* the initial_state argument of TradingStateMachine.__init__
    state,      \* TradingStateMachine.state
    history,    \* TradingStateMachine.history: sequence of StateTransition
    clock,      \* number of update calls made so far; the reading of datetime.now
    last,       \* arguments of the latest update call (NoCall before the first)
    ret,        \* value returned by the latest update call
    script,     \* how many calls so far replay LifecycleScript from a fresh machine; -1 off script
    conflict_window, \* TimelineValidator.conflict_window, in minutes
    events,     \* the list handed to TimelineValidator.validate
    result,     \* the TimelineValidationResult it returned (NoResult before the call)
    evidence,   \* the EvidenceValidationResult of EvidenceValidator.validate(events)
    conflict_count, \* the conflict_count handed to ConvictionAgent.score
    pending_count,  \* the pending_count handed to ConvictionAgent.score
    conviction, \* the ConvictionResult of ConvictionAgent.score
    utcnow,     \* the reading of datetime.now(timezone.utc) in the agents, in minutes
    research,   \* the ResearchReport of ResearchAgent.analyze
    thesis,     \* the Thesis handed to ExecutionAgent.create_plan
    execution,  \* the ExecutionReport of create_plan, or the exception it raised
    risk,       \* the RiskReport of RiskAgent.assess
    scenario_args,  \* the arguments of the latest TradeScenario(...) call
    scenario,   \* the TradeScenario it built, or the exception it raised
    event_args, \* the arguments of the latest Event(...) call
    constructed, \* the Event it built, or the exception it raised
    revalidated, \* the result of validate on the events of result
    supplied_checks, \* the pending_checks handed to ResearchAgent.analyze
    assessed_plan,  \* the TradePlan handed to RiskAgent.assess
    position,   \* a Position: quantity, average_cost, current_price, realized_pnl, status
    position_call,  \* the latest call on the Position and its arguments
    position_raised \* the exception that call raised, NoRaise when it returned

smVars == <<initial_state, state, history, clock, last, ret, script>>

tlVars == <<conflict_window, events, result>>

agVars ==
    <<evidence, conflict_count, pending_count, conviction, utcnow, research, thesis,
      execution, risk, scenario_args, scenario, event_args, constructed>>

\* the variables of the agents and models behind the validators
otherAgVars ==
    <<conflict_count, pending_count, conviction, utcnow, research, thesis, execution, risk,
      scenario_args, scenario, event_args, constructed>>

\* the second validate call, the arguments handed to single agents, the Position
callVars ==
    <<revalidated, supplied_checks, assessed_plan, position, position_call, position_raised>>

vars == <<smVars, tlVars, agVars, callVars>>

(***************************************************************************)
(* Bounds                                                                  *)
(***************************************************************************)
\* update calls made on one machine
MaxCalls == 5
\* events in one list handed to validate
MaxEvents == 3
\* events in one list of a single reconciliation group
MaxGroup == 3
\* events in one list of two interleaved reconciliation groups
MaxSplit == 4
\* events in one list handed to EvidenceValidator.validate
MaxSourced == 2
\* events in one list handed to ConvictionAgent.score
MaxScored == 2
\* the largest conflict_count and pending_count handed to ConvictionAgent.score
MaxConflicts == 2
MaxPending == 6
\* events in one list handed to the chain of agents
MaxFlow == 2
\* events in one list handed to ResearchAgent.analyze
MaxResearch == 3
\* calls made on one Position
MaxPositionCalls == 4

(***************************************************************************)
(* models/enums.py: AgentState                                             *)
(***************************************************************************)
S0_OBSERVE == "S0_OBSERVE"
S1_WARMUP == "S1_WARMUP"
S2_POSITION_ON == "S2_POSITION_ON"
S3_VALIDATING == "S3_VALIDATING"
S4_REALIZING == "S4_REALIZING"
S5_EXITED == "S5_EXITED"

AgentState == {S0_OBSERVE, S1_WARMUP, S2_POSITION_ON, S3_VALIDATING, S4_REALIZING, S5_EXITED}

(***************************************************************************)
(* agents/state_machine.py                                                 *)
(***************************************************************************)
\* the threshold the guards of update compare conviction_score with
TradableThreshold == 60

\* conviction scores fed to update: just below, at and above the threshold
Scores == {59, 60, 65}

\* the keyword arguments of one update call
UpdateArgs ==
    [conviction_score : Scores,
     has_position : BOOLEAN,
     thesis_falsified : BOOLEAN,
     take_profit_hit : BOOLEAN,
     stop_loss_hit : BOOLEAN]

NoCall == [conviction_score |-> -1]
NoReturn == "None"

\* nothing returned by validate yet
NoResult == [returned |-> FALSE]

\* the variables of the validators and agents that were not called
AgentsIdle ==
    /\ evidence = NoResult
    /\ conflict_count = 0 /\ pending_count = 0 /\ conviction = NoResult
    /\ utcnow = 0 /\ research = NoResult
    /\ thesis = NoResult /\ execution = NoResult /\ risk = NoResult
    /\ scenario_args = NoResult /\ scenario = NoResult
    /\ event_args = NoResult /\ constructed = NoResult

\* PositionStatus (models/enums.py) and the default Position(ticker)
WATCHLIST == "watchlist"
OPEN == "open"
CLOSED == "closed"

\* average_cost and realized_pnl are fractions <<numerator, denominator>> in
\* lowest terms; opened_at and closed_at hold the number of the call that read
\* datetime.now, NoTime for None
NoTime == 0

DefaultPosition ==
    [quantity |-> 0, average_cost |-> <<0, 1>>, current_price |-> 0,
     realized_pnl |-> <<0, 1>>, status |-> WATCHLIST,
     opened_at |-> NoTime, closed_at |-> NoTime]

\* no call made on the Position yet; a call that returned without raising
NoPositionCall == [method |-> "none", at |-> 0]
NoRaise == [returned |-> TRUE]

\* no second validate call, no single agent called, a Position never used
CallsIdle ==
    /\ revalidated = NoResult /\ supplied_checks = <<>> /\ assessed_plan = NoResult
    /\ position = DefaultPosition /\ position_call = NoPositionCall
    /\ position_raised = NoRaise

\* a fresh TradingStateMachine that is never called
SMIdle ==
    /\ initial_state = S0_OBSERVE /\ state = S0_OBSERVE /\ history = <<>> /\ clock = 0
    /\ last = NoCall /\ ret = NoReturn /\ script = -1

\* StateTransition(from_state, to_state, reason, changed_at)
StateTransition(from, to, reason, now) ==
    [from_state |-> from, to_state |-> to, reason |-> reason, changed_at |-> now]

\* _transition without the early return of lines 34-35
_transition_no_early_return(st, hist, next_state, reason, now) ==
    [state |-> next_state,
     history |-> Append(hist, StateTransition(st, next_state, reason, now))]

\* _transition that assigns self.state (line 44) before it builds the record
_transition_state_set_first(st, hist, next_state, reason, now) ==
    IF next_state = st
    THEN [state |-> st, history |-> hist]
    ELSE [state |-> next_state,
          history |-> Append(hist, StateTransition(next_state, next_state, reason, now))]

\* TradingStateMachine._transition: the machine (state, history) after the call
_transition(st, hist, next_state, reason, now) ==
    IF next_state = st
    THEN [state |-> st, history |-> hist]
    ELSE [state |-> next_state,
          history |-> Append(hist, StateTransition(st, next_state, reason, now))]

\* The guard chain of TradingStateMachine.update: the state handed to _transition
\* and its reason (the final `return self.state` hands over the current state)
update_guards(st, a) ==
    IF a.thesis_falsified \/ a.stop_loss_hit
    THEN [next_state |-> S5_EXITED, reason |-> "Thesis invalidated or stop-loss triggered"]
    ELSE IF st = S0_OBSERVE /\ a.conviction_score >= TradableThreshold
    THEN [next_state |-> S1_WARMUP, reason |-> "Conviction reached tradable threshold"]
    ELSE IF st \in {S0_OBSERVE, S1_WARMUP} /\ a.has_position
    THEN [next_state |-> S2_POSITION_ON, reason |-> "Position initiated"]
    ELSE IF st = S2_POSITION_ON /\ a.has_position
    THEN [next_state |-> S3_VALIDATING, reason |-> "Position active and catalyst validating"]
    ELSE IF st = S3_VALIDATING /\ a.take_profit_hit
    THEN [next_state |-> S4_REALIZING, reason |-> "Take-profit condition met"]
    ELSE IF st = S4_REALIZING /\ ~a.has_position
    THEN [next_state |-> S5_EXITED, reason |-> "Position closed after realization"]
    ELSE IF a.conviction_score < TradableThreshold /\ ~a.has_position /\ st # S5_EXITED
    THEN [next_state |-> S0_OBSERVE, reason |-> "Conviction dropped below threshold"]
    ELSE [next_state |-> st, reason |-> ""]

\* update with the exit guard tested after the warm-up guard
update_exit_after_warmup(st, a) ==
    IF st = S0_OBSERVE /\ a.conviction_score >= TradableThreshold
    THEN [next_state |-> S1_WARMUP, reason |-> "Conviction reached tradable threshold"]
    ELSE update_guards(st, a)

\* update whose retreat guard lacks `self.state != AgentState.S5_EXITED`
update_retreat_from_exited(st, a) ==
    IF /\ st = S5_EXITED
       /\ ~(a.thesis_falsified \/ a.stop_loss_hit)
       /\ a.conviction_score < TradableThreshold /\ ~a.has_position
    THEN [next_state |-> S0_OBSERVE, reason |-> "Conviction dropped below threshold"]
    ELSE update_guards(st, a)

\* update whose position guard accepts S0_OBSERVE only
update_position_from_observe_only(st, a) ==
    IF st = S1_WARMUP /\ ~(a.thesis_falsified \/ a.stop_loss_hit) /\ a.has_position
    THEN [next_state |-> st, reason |-> ""]
    ELSE update_guards(st, a)

\* update whose validating guard lacks `and has_position`
update_validating_without_position(st, a) ==
    IF st = S2_POSITION_ON /\ ~(a.thesis_falsified \/ a.stop_loss_hit)
    THEN [next_state |-> S3_VALIDATING, reason |-> "Position active and catalyst validating"]
    ELSE update_guards(st, a)

\* update with the position guard of line 62 tested before the warm-up guard of line 59
update_position_before_warmup(st, a) ==
    IF st = S0_OBSERVE /\ ~(a.thesis_falsified \/ a.stop_loss_hit) /\ a.has_position
    THEN [next_state |-> S2_POSITION_ON, reason |-> "Position initiated"]
    ELSE update_guards(st, a)

\* update with the retreat guard of line 74 tested before the guard of line 71
update_retreat_from_realizing(st, a) ==
    IF /\ st = S4_REALIZING
       /\ ~(a.thesis_falsified \/ a.stop_loss_hit)
       /\ a.conviction_score < TradableThreshold /\ ~a.has_position
    THEN [next_state |-> S0_OBSERVE, reason |-> "Conviction dropped below threshold"]
    ELSE update_guards(st, a)

\* TradingStateMachine.update(conviction_score, has_position, thesis_falsified,
\* take_profit_hit, stop_loss_hit)
update(st, a) == update_guards(st, a)

\* the five calls of test_state_machine_transitions
Call(score, pos, tp) ==
    [conviction_score |-> score, has_position |-> pos, thesis_falsified |-> FALSE,
     take_profit_hit |-> tp, stop_loss_hit |-> FALSE]

LifecycleScript ==
    <<Call(65, FALSE, FALSE), Call(65, TRUE, FALSE), Call(65, TRUE, FALSE),
      Call(65, TRUE, TRUE), Call(65, FALSE, FALSE)>>

\* TradingStateMachine.__init__(initial_state); S0_OBSERVE is the default
InitSM ==
    /\ initial_state \in AgentState
    /\ state = initial_state
    /\ history = <<>>
    /\ clock = 0
    /\ last = NoCall
    /\ ret = NoReturn
    /\ script = IF initial_state = S0_OBSERVE THEN 0 ELSE -1
    /\ conflict_window = 0 /\ events = <<>> /\ result = NoResult
    /\ AgentsIdle
    /\ CallsIdle

\* one call sm.update(**a)
Update(a) ==
    /\ clock < MaxCalls
    /\ LET target == update(state, a)
           after == _transition(state, history, target.next_state, target.reason, clock + 1)
       IN /\ state' = after.state
          /\ history' = after.history
          /\ ret' = after.state
    /\ clock' = clock + 1
    /\ last' = a
    /\ UNCHANGED initial_state
    /\ UNCHANGED tlVars
    /\ UNCHANGED agVars
    /\ script' = IF script >= 0 /\ script < Len(LifecycleScript)
                    /\ a = LifecycleScript[script + 1]
                 THEN script + 1
                 ELSE -1
    /\ UNCHANGED callVars

NextSM == \E a \in UpdateArgs : Update(a)

SpecSM == InitSM /\ [][NextSM]_vars

(***************************************************************************)
(* Strings.  Python orders str values by code point; the model keeps the   *)
(* text that is compared character by character (event titles) as a        *)
(* sequence of one-character strings and orders it through Ascii.          *)
(***************************************************************************)
\* the printable ASCII characters, code 32 (space) first; codes 34, 92 and 96
\* are written by name
Ascii ==
    <<" ", "!", "dquote", "#", "$", "%", "&", "'", "(", ")", "*", "+", ",", "-", ".", "/",
      "0", "1", "2", "3", "4", "5", "6", "7", "8", "9", ":", ";", "<", "=", ">", "?",
      "@", "A", "B", "C", "D", "E", "F", "G", "H", "I", "J", "K", "L", "M", "N", "O",
      "P", "Q", "R", "S", "T", "U", "V", "W", "X", "Y", "Z", "[", "backslash", "]", "^", "_",
      "backtick", "a", "b", "c", "d", "e", "f", "g", "h", "i", "j", "k", "l", "m", "n", "o",
      "p", "q", "r", "s", "t", "u", "v", "w", "x", "y", "z", "{", "|", "}", "~">>

\* ord(c) and chr(n)
OrdTable == [c \in {Ascii[i] : i \in 1..Len(Ascii)} |-> 31 + (CHOOSE i \in 1..Len(Ascii) : Ascii[i] = c)]
Ord(c) == OrdTable[c]
Chr(n) == Ascii[n - 31]

\* str.lower() on one character: 'A'..'Z' (65..90) move to 'a'..'z'
LowerChar(c) == IF Ord(c) \in 65..90 THEN Chr(Ord(c) + 32) ELSE c

\* a character of the class [a-z0-9]
IsLowerAlnum(c) == Ord(c) \in (97..122) \cup (48..57)

\* str < str, character by character, a proper prefix first
StrLess(s, t) ==
    \E k \in 0..Len(s) :
        /\ k <= Len(t)
        /\ \A i \in 1..k : s[i] = t[i]
        /\ IF k = Len(s) THEN k < Len(t)
           ELSE k < Len(t) /\ Ord(s[k + 1]) < Ord(t[k + 1])

\* the elements of seq at the indices in idx, in index order
AtIndices(seq, idx) ==
    LET nth(k) == CHOOSE i \in idx : Cardinality({j \in idx : j < i}) = k - 1
    IN [k \in 1..Cardinality(idx) |-> seq[nth(k)]]

\* str.strip(): leading and trailing blanks dropped
Strip(s) ==
    LET solid == {i \in 1..Len(s) : s[i] # " "}
    IN IF solid = {} THEN <<>>
       ELSE SubSeq(s, CHOOSE i \in solid : \A j \in solid : i <= j,
                      CHOOSE i \in solid : \A j \in solid : i >= j)

(***************************************************************************)
(* models/enums.py, models/event.py                                        *)
(***************************************************************************)
\* EvidenceLevel and EvidenceLevel.priority
EvidenceLevel == {"A", "B", "C"}

priority(level) == CASE level = "A" -> 3 [] level = "B" -> 2 [] level = "C" -> 1

\* EventType values, in str order
EventTypeOrder ==
    <<"earnings_call", "earnings_release", "news_clue", "options_iv_snapshot",
      "other", "sec_filing", "social_clue">>

\* tickers of the input lists, in str order
TickerOrder == <<"AAPL", "MSFT">>

Rank(order, x) == CHOOSE i \in 1..Len(order) : order[i] = x

\* minutes in a day
MinutesPerDay == 1440

\* datetime.date() of an aware datetime: the day of its own wall clock
DateOf(dt) == (dt.utc + dt.utcoffset) \div MinutesPerDay

(***************************************************************************)
(* data/validators/timeline_validator.py                                   *)
(***************************************************************************)
\* the slice [:48] of _normalize_title
TitleCap == 48

\* re.sub(r"[^a-z0-9]+", " ", s): each run of other characters becomes one blank
SubNonAlnum(s) ==
    LET kept == {i \in 1..Len(s) :
                    IsLowerAlnum(s[i]) \/ i = 1 \/ IsLowerAlnum(s[i - 1])}
        blanked == [i \in 1..Len(s) |-> IF IsLowerAlnum(s[i]) THEN s[i] ELSE " "]
    IN AtIndices(blanked, kept)

\* TimelineValidator._normalize_title
_normalize_title(title) ==
    LET lowered == Strip([i \in 1..Len(title) |-> LowerChar(title[i])])
        replaced == SubNonAlnum(lowered)
        cut == SubSeq(replaced, 1, IF Len(replaced) < TitleCap THEN Len(replaced) ELSE TitleCap)
    IN Strip(cut)

\* the sort key of line 69 compared: (ticker, event_type.value, occurred_at)
SortKeyLess(a, b) ==
    \/ Rank(TickerOrder, a.ticker) < Rank(TickerOrder, b.ticker)
    \/ /\ a.ticker = b.ticker
       /\ \/ Rank(EventTypeOrder, a.event_type) < Rank(EventTypeOrder, b.event_type)
          \/ (a.event_type = b.event_type /\ a.occurred_at.utc < b.occurred_at.utc)

\* the key of _pick_best compared, larger first (reverse=True)
BestKeyGreater(a, b) ==
    \/ priority(a.evidence_level) > priority(b.evidence_level)
    \/ /\ priority(a.evidence_level) = priority(b.evidence_level)
       /\ \/ a.importance > b.importance
          \/ (a.importance = b.importance /\ a.occurred_at.utc > b.occurred_at.utc)

\* the comparison of resolved.sort(key=lambda event: event.occurred_at)
OccurredLess(a, b) == a.occurred_at.utc < b.occurred_at.utc

\* the three orders validate sorts by
KeyLess(by, a, b) ==
    CASE by = "events_sorted" -> SortKeyLess(a, b)
      [] by = "_pick_best" -> BestKeyGreater(a, b)
      [] by = "resolved" -> OccurredLess(a, b)

\* sorted(seq, key=...) and list.sort(key=...): the stable sort, as the insertion
\* sort that puts each element behind the earlier ones whose key is not larger
StableSort(seq, by) ==
    LET sorted[n \in 0..Len(seq)] ==
            IF n = 0 THEN <<>>
            ELSE LET front == sorted[n - 1]
                     k == Cardinality({i \in 1..(n - 1) : ~KeyLess(by, seq[n], front[i])})
                 IN SubSeq(front, 1, k) \o <<seq[n]>> \o SubSeq(front, k + 1, n - 1)
    IN sorted[Len(seq)]

\* validate without the sort of lines 67-70: groupby reads the list as given
events_sorted_as_given(evs) == evs

\* events_sorted of lines 67-70
events_sorted(evs) == StableSort(evs, "events_sorted")

\* key_func of lines 76-81
key_func(e) == <<e.ticker, e.event_type, _normalize_title(e.title), DateOf(e.occurred_at)>>

\* itertools.groupby(seq, key=key_func): the runs of consecutive equal keys
groupby(seq) ==
    LET n == Len(seq)
        starts == {i \in 1..n : i = 1 \/ key_func(seq[i]) # key_func(seq[i - 1])}
        endOf(i) == IF \E j \in starts : j > i
                    THEN (CHOOSE j \in starts : j > i /\ \A k \in starts : k > i => j <= k) - 1
                    ELSE n
        nth(k) == CHOOSE i \in starts : Cardinality({j \in starts : j < i}) = k - 1
    IN [k \in 1..Cardinality(starts) |-> SubSeq(seq, nth(k), endOf(nth(k)))]

\* _pick_best taking the last of the sorted group for the first
_pick_best_last(group) == StableSort(group, "_pick_best")[Len(group)]

\* TimelineValidator._pick_best
_pick_best(group) == StableSort(group, "_pick_best")[1]

\* min_ts and max_ts of lines 92-93
min_ts(group) ==
    CHOOSE t \in {group[i].occurred_at.utc : i \in 1..Len(group)} :
        \A i \in 1..Len(group) : t <= group[i].occurred_at.utc

max_ts(group) ==
    CHOOSE t \in {group[i].occurred_at.utc : i \in 1..Len(group)} :
        \A i \in 1..Len(group) : t >= group[i].occurred_at.utc

\* the test of line 94 with >= for >
span_reaches_window(group, window) == max_ts(group) - min_ts(group) >= window

\* the test of line 94
span_exceeds_window(group, window) == max_ts(group) - min_ts(group) > window

\* TimelineConflict of lines 95-101
TimelineConflict(group, chosen) ==
    [event_type |-> chosen.event_type,
     date |-> DateOf(chosen.occurred_at),
     candidate_event_ids |-> [i \in 1..Len(group) |-> group[i].event_id],
     chosen_event_id |-> chosen.event_id,
     reason |-> "timestamp mismatch across sources; selected highest evidence"]

\* the pending checks: f"{type} on {date} has only C-tier evidence",
\* f"Verify {type} from A/B source: {title}" and "No events found"
OnlyCTier(e) == [kind |-> "only_c_tier", event_type |-> e.event_type, date |-> DateOf(e.occurred_at)]
VerifyFromAB(e) == [kind |-> "verify", event_type |-> e.event_type, title |-> e.title]
NoEventsFound == [kind |-> "no_events_found"]

\* str order of two pending checks: "Verify ..." sorts before every lower-case
\* event type; then the event type decides, then the title or the date
PendingLess(p, q) ==
    \/ p.kind = "verify" /\ q.kind = "only_c_tier"
    \/ /\ p.kind = q.kind
       /\ \/ Rank(EventTypeOrder, p.event_type) < Rank(EventTypeOrder, q.event_type)
          \/ /\ p.event_type = q.event_type
             /\ IF p.kind = "verify" THEN StrLess(p.title, q.title) ELSE p.date < q.date

\* sorted(set(pending_checks)) of line 122
dedup_pending(checks) ==
    LET distinct == {checks[i] : i \in 1..Len(checks)}
    IN [k \in 1..Cardinality(distinct) |->
           CHOOSE p \in distinct :
               Cardinality({q \in distinct : PendingLess(q, p)}) = k - 1]

\* one pass of the loop of lines 83-113 over a group: what it appends to
\* resolved, conflicts and pending_checks
resolve_group(group, window) ==
    IF Len(group) = 1
    THEN [chosen |-> group[1], conflicts |-> <<>>, pending |-> <<>>]
    ELSE LET chosen == _pick_best(group)
         IN [chosen |-> chosen,
             conflicts |-> IF span_exceeds_window(group, window)
                           THEN <<TimelineConflict(group, chosen)>> ELSE <<>>,
             pending |-> IF \A i \in 1..Len(group) : group[i].evidence_level = "C"
                         THEN <<OnlyCTier(chosen)>> ELSE <<>>]

\* line 121 left out
sort_resolved_skipped(resolved) == resolved

\* resolved.sort of line 121
sort_resolved(resolved) == StableSort(resolved, "resolved")

RECURSIVE Flatten(_)
\* the concatenation of a sequence of lists
Flatten(lists) ==
    IF lists = <<>> THEN <<>> ELSE Head(lists) \o Flatten(Tail(lists))

\* what the loop returns for no events, without the early return
empty_result_without_notice == [events |-> <<>>, conflicts |-> <<>>, pending_checks |-> <<>>]

\* the early return of lines 64-65
empty_result == [events |-> <<>>, conflicts |-> <<>>, pending_checks |-> <<NoEventsFound>>]

\* TimelineValidator.validate
validate(evs, window) ==
    IF evs = <<>> THEN empty_result
    ELSE LET groups == groupby(events_sorted(evs))
             passes == [k \in 1..Len(groups) |-> resolve_group(groups[k], window)]
             resolved == [k \in 1..Len(groups) |-> passes[k].chosen]
             verify == SelectSeq(resolved, LAMBDA e : e.evidence_level = "C")
         IN [events |-> sort_resolved(resolved),
             conflicts |-> Flatten([k \in 1..Len(groups) |-> passes[k].conflicts]),
             pending_checks |->
                 dedup_pending(Flatten([k \in 1..Len(groups) |-> passes[k].pending])
                               \o [k \in 1..Len(verify) |-> VerifyFromAB(verify[k])])]

(***************************************************************************)
(* data/validators/evidence_validator.py                                   *)
(***************************************************************************)
\* str.find(c, start): the first index >= start that holds c, 0 when there is none
Find(s, c, start) ==
    LET hits == {i \in start..Len(s) : s[i] = c}
    IN IF hits = {} THEN 0 ELSE CHOOSE i \in hits : \A j \in hits : i <= j

\* sub in s
Contains(s, sub) ==
    \E k \in 0..(Len(s) - Len(sub)) : SubSeq(s, k + 1, k + Len(sub)) = sub

\* str.lower()
Lower(s) == [i \in 1..Len(s) |-> LowerChar(s[i])]

\* str.lstrip() of blanks
LStrip(s) ==
    LET solid == {i \in 1..Len(s) : s[i] # " "}
    IN IF solid = {} THEN <<>>
       ELSE SubSeq(s, CHOOSE i \in solid : \A j \in solid : i <= j, Len(s))

\* a letter, and a character of urllib.parse.scheme_chars
IsAlpha(c) == Ord(c) \in (65..90) \cup (97..122)
IsSchemeChar(c) == IsAlpha(c) \/ Ord(c) \in 48..57 \/ c \in {"+", "-", "."}

\* urllib.parse.urlsplit up to the scheme: what is left of the url behind "scheme:"
AfterScheme(url) ==
    LET stripped == LStrip(url)
        i == Find(stripped, ":", 1)
    IN IF /\ i > 1 /\ IsAlpha(stripped[1])
          /\ \A k \in 1..(i - 1) : IsSchemeChar(stripped[k])
       THEN SubSeq(stripped, i + 1, Len(stripped))
       ELSE stripped

\* urlparse(url).netloc: what follows "//" up to the first of "/", "?", "#";
\* empty when the url has no "//" behind its scheme
netloc(url) ==
    LET rest == AfterScheme(url)
        delims == {Find(rest, c, 3) : c \in {"/", "?", "#"}} \ {0}
        delim == IF delims = {} THEN Len(rest) + 1
                 ELSE CHOOSE d \in delims : \A e \in delims : d <= e
    IN IF Len(rest) >= 2 /\ SubSeq(rest, 1, 2) = <<"/", "/">>
       THEN SubSeq(rest, 3, delim - 1)
       ELSE <<>>

\* EvidenceValidator.TIER_A_DOMAINS and TIER_B_DOMAINS
TIER_A_DOMAINS ==
    {<<"s", "e", "c", ".", "g", "o", "v">>,
     <<"w", "w", "w", ".", "s", "e", "c", ".", "g", "o", "v">>}

TIER_B_DOMAINS ==
    {<<"r", "e", "u", "t", "e", "r", "s", ".", "c", "o", "m">>,
     <<"w", "w", "w", ".", "r", "e", "u", "t", "e", "r", "s", ".", "c", "o", "m">>,
     <<"b", "l", "o", "o", "m", "b", "e", "r", "g", ".", "c", "o", "m">>,
     <<"w", "w", "w", ".", "b", "l", "o", "o", "m", "b", "e", "r", "g", ".", "c", "o", "m">>,
     <<"f", "i", "n", "a", "n", "c", "e", ".", "y", "a", "h", "o", "o", ".", "c", "o", "m">>,
     <<"q", "u", "e", "r", "y", "2", ".", "f", "i", "n", "a", "n", "c", "e", ".", "y", "a", "h", "o", "o", ".", "c", "o", "m">>,
     <<"w", "w", "w", ".", "n", "a", "s", "d", "a", "q", ".", "c", "o", "m">>,
     <<"w", "w", "w", ".", "n", "y", "s", "e", ".", "c", "o", "m">>}

\* the substring tested by line 62
Investor == <<"i", "n", "v", "e", "s", "t", "o", "r">>

\* EvidenceValidator.classify_source
classify_source(source_url) ==
    LET hostname == Lower(netloc(source_url))
    IN IF hostname \in TIER_A_DOMAINS \/ Contains(hostname, Investor) THEN "A"
       ELSE IF hostname \in TIER_B_DOMAINS THEN "B"
       ELSE "C"

\* EvidenceIssue(event_id, message, detected_level); the two messages are
\* f"Evidence level adjusted from {old} to {new} based on source domain" and
\* "C-tier clue cannot directly trigger trading action"
EvidenceIssue(event_id, message, detected_level) ==
    [event_id |-> event_id, message |-> message, detected_level |-> detected_level]

AdjustedMessage(old, new) == [kind |-> "adjusted", from |-> old, to |-> new]
CTierClueMessage == [kind |-> "c_tier_clue"]

\* the loop body that keeps the tier the event carries
normalize_event_as_supplied(event) ==
    [normalized |-> event,
     issues |-> IF event.evidence_level = "C"
                THEN <<EvidenceIssue(event.event_id, CTierClueMessage, event.evidence_level)>>
                ELSE <<>>]

\* one pass of the loop of lines 73-99 over an event: what it appends to
\* normalized and to issues
normalize_event(event) ==
    LET detected_level == classify_source(event.source_url)
    IN IF detected_level # event.evidence_level
       THEN [normalized |-> [event EXCEPT !.evidence_level = detected_level],
             issues |-> <<EvidenceIssue(event.event_id,
                                        AdjustedMessage(event.evidence_level, detected_level),
                                        detected_level)>>]
       ELSE [normalized |-> event,
             issues |-> IF event.evidence_level = "C"
                        THEN <<EvidenceIssue(event.event_id, CTierClueMessage, detected_level)>>
                        ELSE <<>>]

\* EvidenceValidator.validate
evidence_validate(evs) ==
    LET passes == [i \in 1..Len(evs) |-> normalize_event(evs[i])]
    IN [events |-> [i \in 1..Len(evs) |-> passes[i].normalized],
        issues |-> Flatten([i \in 1..Len(evs) |-> passes[i].issues])]

(***************************************************************************)
(* agents/conviction_agent.py.  Scores are integers; an implied volatility *)
(* is kept in hundredths (atm_iv 0.45 is 45).                              *)
(***************************************************************************)
\* int(round(num / den)) for num >= 0, den > 0: round() takes a half to the
\* even neighbour
RoundHalfEven(num, den) ==
    LET q == num \div den
        r == num % den
    IN IF 2 * r < den THEN q
       ELSE IF 2 * r > den THEN q + 1
       ELSE IF q % 2 = 0 THEN q ELSE q + 1

RECURSIVE Sum(_)
\* sum() of a list of numbers
Sum(nums) == IF nums = <<>> THEN 0 ELSE Head(nums) + Sum(Tail(nums))

Min(a, b) == IF a <= b THEN a ELSE b
Max(a, b) == IF a >= b THEN a ELSE b

\* the dict without entries, and details.get("atm_iv") is not None
NoDetails == [key \in {} |-> 0]
HasAtmIv(e) == "atm_iv" \in DOMAIN e.details

\* the cap of every sub-score and of the total
SubScoreCap == 25
TotalCap == 100

\* the band thresholds of lines 87-92
HighThreshold == 75
MediumThreshold == 60

\* ConvictionAgent._score_information_certainty
_score_information_certainty(evs) ==
    IF evs = <<>> THEN 0
    ELSE LET weighted_sum == Sum([i \in 1..Len(evs) |-> priority(evs[i].evidence_level)])
             max_sum == 3 * Len(evs)
         IN RoundHalfEven(weighted_sum * 25, max_sum)

\* ConvictionAgent._score_catalyst_strength
_score_catalyst_strength(evs) ==
    IF evs = <<>> THEN 0
    ELSE LET importance_sum == Sum([i \in 1..Len(evs) |-> evs[i].importance])
             base == RoundHalfEven(importance_sum * 20, 5 * Len(evs))
             bonus == IF \E i \in 1..Len(evs) : evs[i].event_type = "earnings_release"
                      THEN 5 ELSE 0
         IN Min(base + bonus, SubScoreCap)

\* ConvictionAgent._score_expectation_gap; avg_iv >= 0.8 is compared as
\* sum >= 80 * n on the exact sum
_score_expectation_gap(evs) ==
    LET snapshots == SelectSeq(evs, LAMBDA e : e.event_type = "options_iv_snapshot" /\ HasAtmIv(e))
        iv_sum == Sum([i \in 1..Len(snapshots) |-> snapshots[i].details.atm_iv])
        n == Len(snapshots)
    IN IF n = 0 THEN 10
       ELSE IF iv_sum >= 80 * n THEN 23
       ELSE IF iv_sum >= 60 * n THEN 19
       ELSE IF iv_sum >= 45 * n THEN 15
       ELSE 11

\* ConvictionAgent._score_execution_feasibility
_score_execution_feasibility(evs, conflicts, pendings) ==
    IF evs = <<>> THEN 0
    ELSE LET c_count == Len(SelectSeq(evs, LAMBDA e : e.evidence_level = "C"))
             remaining == SubScoreCap - RoundHalfEven(c_count * 10, Len(evs))
                             - conflicts * 4 - Min(pendings, 5) * 2
         IN Max(0, Min(remaining, SubScoreCap))

\* the band of lines 87-92 with > for the first >=
band_above_high(total) ==
    IF total > HighThreshold THEN "HIGH"
    ELSE IF total >= MediumThreshold THEN "MEDIUM"
    ELSE "LOW"

\* the band of lines 87-92
band_of(total) ==
    IF total >= HighThreshold THEN "HIGH"
    ELSE IF total >= MediumThreshold THEN "MEDIUM"
    ELSE "LOW"

\* ConvictionAgent.score: ConvictionResult(score, breakdown, band)
score(evs, conflicts, pendings) ==
    LET certainty == _score_information_certainty(evs)
        catalyst == _score_catalyst_strength(evs)
        gap == _score_expectation_gap(evs)
        feasibility == _score_execution_feasibility(evs, conflicts, pendings)
        total == Max(0, Min(certainty + catalyst + gap + feasibility, TotalCap))
    IN [score |-> total,
        breakdown |-> [information_certainty |-> certainty,
                       catalyst_strength |-> catalyst,
                       expectation_gap |-> gap,
                       execution_feasibility |-> feasibility],
        band |-> band_of(total)]

(***************************************************************************)
(* models/trade_plan.py.  A fraction is kept in ten-thousandths            *)
(* (position_size_pct 0.02 is 200, 1 is 10000).                            *)
(***************************************************************************)
\* the fraction 1
One == 10000

\* a call that raised: the exception type and its message
Raise(type, message) == [raised |-> type, message |-> message]
Raised(outcome) == "raised" \in DOMAIN outcome

\* TradeScenario whose __post_init__ brings position_size_pct into [0, 1]
\* and checks the two other fractions
TradeScenario_clamped(a) ==
    IF a.stop_loss_pct <= 0
    THEN Raise("ValueError", "stop_loss_pct must be > 0")
    ELSE IF a.take_profit_pct <= 0
    THEN Raise("ValueError", "take_profit_pct must be > 0")
    ELSE [a EXCEPT !.position_size_pct =
                       IF @ < 0 THEN 0 ELSE IF @ > One THEN One ELSE @]

\* TradeScenario(**a): the dataclass fields, then __post_init__ (lines 21-28)
TradeScenario(a) ==
    IF a.position_size_pct < 0 \/ a.position_size_pct > One
    THEN Raise("ValueError", "position_size_pct must be in range [0, 1]")
    ELSE IF a.stop_loss_pct <= 0
    THEN Raise("ValueError", "stop_loss_pct must be > 0")
    ELSE IF a.take_profit_pct <= 0
    THEN Raise("ValueError", "take_profit_pct must be > 0")
    ELSE a

(***************************************************************************)
(* agents/research_agent.py                                                *)
(***************************************************************************)
\* str.upper()
UpperChar(c) == IF Ord(c) \in 97..122 THEN Chr(Ord(c) - 32) ELSE c
Upper(s) == [i \in 1..Len(s) |-> UpperChar(s[i])]

\* timedelta(days=n) in minutes
Days(n) == n * MinutesPerDay

\* list(items) for list(dict.fromkeys(items)): repeated items stay
KeepRepeated(items) == items

\* list(dict.fromkeys(items)): each item once, at its first position
DedupKeepFirst(items) ==
    AtIndices(items, {i \in 1..Len(items) : \A j \in 1..(i - 1) : items[j] # items[i]})

\* the four checks of lines 74-77, entries of the same list as the pending checks
StandardTask(text) == [kind |-> "standard", task |-> text]

StandardTasks ==
    <<StandardTask("Confirm exact earnings release timestamp from IR or SEC 8-K"),
      StandardTask("Validate conference call schedule and transcript source"),
      StandardTask("Extract key guidance KPI fields from latest filing"),
      StandardTask("Cross-check options IV percentile vs 1y history")>>

\* falsification, win_paths and loss_paths of lines 57-69
FalsificationConditions ==
    <<"A/B source confirms guidance cut or major miss vs prior quarter trend",
      "No A-tier confirmation appears within 24h after catalyst",
      "Post-event price closes below risk line by more than stop threshold">>

WinPaths ==
    <<"Earnings/8-K confirms better-than-feared trend and market reprices forward estimates",
      "Implied volatility compresses after event while spot follows through in thesis direction">>

LossPaths ==
    <<"Catalyst details contradict thesis and invalidate core driver",
      "Narrative stays C-tier without A/B confirmation, causing false breakout">>

\* analyze that writes one falsification condition per event it was given
analyze_condition_per_event(ticker, evs, pending_checks, at) ==
    [thesis |-> [falsification_conditions |->
                     SubSeq(FalsificationConditions, 1, Min(Len(evs), 3))]]

\* ResearchAgent.analyze at the instant at: ResearchReport(thesis, facts, must_verify);
\* the two hypothesis texts are kept by name, avg_iv > 0.65 is compared on the
\* exact sum
analyze(ticker, evs, pending_checks, at) ==
    LET upper_ticker == Upper(ticker)
        earnings_events == SelectSeq(evs, LAMBDA e : e.event_type = "earnings_release")
        sec_events == SelectSeq(evs, LAMBDA e : e.event_type = "sec_filing")
        iv_events == SelectSeq(evs, LAMBDA e : e.event_type = "options_iv_snapshot")
        upcoming_earnings ==
            SelectSeq(earnings_events,
                      LAMBDA e : at <= e.occurred_at.utc /\ e.occurred_at.utc <= at + Days(30))
        recent_sec == SelectSeq(sec_events, LAMBDA e : e.occurred_at.utc >= at - Days(45))
        iv_values == SelectSeq([i \in 1..Len(iv_events) |->
                                   IF HasAtmIv(iv_events[i]) THEN iv_events[i].details.atm_iv ELSE 0],
                               LAMBDA iv : iv > 0)
        elevated == iv_values # <<>> /\ Sum(iv_values) > 65 * Len(iv_values)
        must_verify == LET merged == DedupKeepFirst(pending_checks \o StandardTasks)
                       IN SubSeq(merged, 1, Min(Len(merged), 5))
        c_count == Len(SelectSeq(evs, LAMBDA e : e.evidence_level = "C"))
        has_changed == Len(pending_checks) > 0 /\ c_count > Max(1, Len(evs) \div 2)
    IN [thesis |->
            [ticker |-> upper_ticker,
             main_hypothesis |-> [kind |-> IF elevated THEN "elevated_move_expectations"
                                           ELSE "event_rich_window",
                                  ticker |-> upper_ticker],
             falsification_conditions |-> FalsificationConditions,
             win_paths |-> WinPaths,
             loss_paths |-> LossPaths,
             verification_tasks |-> must_verify,
             has_changed |-> has_changed,
             change_reason |-> IF has_changed
                               THEN "Evidence quality degraded by C-tier dominance" ELSE ""],
        facts |-> [upcoming_earnings |-> Len(upcoming_earnings),
                   recent_sec_filings |-> Len(recent_sec),
                   avg_iv_available |-> iv_values # <<>>,
                   has_recent_sec |-> recent_sec # <<>>],
        must_verify |-> must_verify]

(***************************************************************************)
(* agents/execution_agent.py                                               *)
(***************************************************************************)
\* thesis.falsification_conditions[i] of a Python list: IndexError past its end
HasCondition(th, i) == i < Len(th.falsification_conditions)

\* the sizing with `conviction.score > 75` for the test of line 28
Sizing_above_high(total) ==
    IF total > HighThreshold
    THEN [base_size |-> 2000, alt_size |-> 1200, action |-> "TRADE",
          note |-> "High conviction: deploy primary setup with full risk controls"]
    ELSE IF total >= MediumThreshold
    THEN [base_size |-> 1000, alt_size |-> 500, action |-> "TRADE_SMALL",
          note |-> "Medium conviction: start with pilot size and add on confirmation"]
    ELSE [base_size |-> 200, alt_size |-> 0, action |-> "TRACK_ONLY",
          note |-> "Low conviction: no aggressive entry until A/B confirmation"]

\* the sizing of lines 28-42
Sizing(total) ==
    IF total >= HighThreshold
    THEN [base_size |-> 2000, alt_size |-> 1200, action |-> "TRADE",
          note |-> "High conviction: deploy primary setup with full risk controls"]
    ELSE IF total >= MediumThreshold
    THEN [base_size |-> 1000, alt_size |-> 500, action |-> "TRADE_SMALL",
          note |-> "Medium conviction: start with pilot size and add on confirmation"]
    ELSE [base_size |-> 200, alt_size |-> 0, action |-> "TRACK_ONLY",
          note |-> "Low conviction: no aggressive entry until A/B confirmation"]

\* base_case and alt_case of lines 44-61
base_case_of(total, th) ==
    TradeScenario(
        [entry_trigger |-> "A/B evidence confirms catalyst and price holds above trigger level for 30m",
         stop_loss_pct |-> IF total >= MediumThreshold THEN 400 ELSE 300,
         take_profit_pct |-> IF total >= HighThreshold THEN 1000 ELSE 700,
         position_size_pct |-> Sizing(total).base_size,
         add_on_condition |-> "Add 25% when thesis KPI confirms and IV starts compressing",
         invalidation_condition |-> th.falsification_conditions[1],
         notes |-> "Base Case: follow primary hypothesis path"])

alt_case_of(total, th) ==
    TradeScenario(
        [entry_trigger |-> "If gap move >8%, wait for pullback/retest before entry",
         stop_loss_pct |-> 300,
         take_profit_pct |-> 600,
         position_size_pct |-> Sizing(total).alt_size,
         add_on_condition |-> "No add-on unless second A-tier source confirms",
         invalidation_condition |-> th.falsification_conditions[2],
         notes |-> "Alt Case: volatility control scenario"])

\* create_plan that falls back on the first condition when the thesis has one only
create_plan_reusing_condition(ticker, conv, th, evs) ==
    IF ~HasCondition(th, 0) THEN Raise("IndexError", "list index out of range")
    ELSE LET th2 == IF HasCondition(th, 1) THEN th
                    ELSE [th EXCEPT !.falsification_conditions = @ \o @]
         IN [trade_plan |-> [ticker |-> Upper(ticker),
                             conviction_score |-> conv.score,
                             base_case |-> base_case_of(conv.score, th2),
                             alt_case |-> alt_case_of(conv.score, th2),
                             status |-> IF conv.score >= MediumThreshold THEN "ready"
                                        ELSE "watch_only"],
             action |-> Sizing(conv.score).action,
             note |-> Sizing(conv.score).note]

\* ExecutionAgent.create_plan: the ExecutionReport, or the exception raised on
\* the way (IndexError from the thesis, ValueError from a TradeScenario)
create_plan(ticker, conv, th, evs) ==
    IF ~HasCondition(th, 0) THEN Raise("IndexError", "list index out of range")
    ELSE IF Raised(base_case_of(conv.score, th)) THEN base_case_of(conv.score, th)
    ELSE IF ~HasCondition(th, 1) THEN Raise("IndexError", "list index out of range")
    ELSE IF Raised(alt_case_of(conv.score, th)) THEN alt_case_of(conv.score, th)
    ELSE [trade_plan |-> [ticker |-> Upper(ticker),
                          conviction_score |-> conv.score,
                          base_case |-> base_case_of(conv.score, th),
                          alt_case |-> alt_case_of(conv.score, th),
                          status |-> IF conv.score >= MediumThreshold THEN "ready"
                                     ELSE "watch_only"],
          action |-> Sizing(conv.score).action,
          note |-> Sizing(conv.score).note]

(***************************************************************************)
(* agents/risk_agent.py                                                    *)
(***************************************************************************)
\* TradePlan.recommended_position_pct
recommended_position_pct(plan) ==
    Max(plan.base_case.position_size_pct, plan.alt_case.position_size_pct)

\* the risk and hedge pairs of lines 42-53, and the default hedge of line 56
EarningsGapRisk ==
    [risk |-> "Earnings gap risk in next 7 days",
     hedge |-> "Use defined-risk options structure (put spread or call spread)"]
EvidenceQualityRisk ==
    [risk |-> "High C-tier evidence ratio; information quality risk",
     hedge |-> "Delay sizing until A/B confirmation"]
LowConvictionRisk ==
    [risk |-> "Low conviction regime; false-breakout probability elevated",
     hedge |-> "Keep exposure minimal and trade only on trigger confirmation"]
DefaultHedge == "Maintain hard stop and reduce size before major catalyst windows"

\* assess without the test of line 55: the default hedge is always appended
assess_default_hedge_appended(trade_plan, evs, conv, at) ==
    LET near_term_earnings ==
            SelectSeq(evs, LAMBDA e : /\ e.event_type = "earnings_release"
                                      /\ at <= e.occurred_at.utc
                                      /\ e.occurred_at.utc <= at + Days(7))
        c_count == Len(SelectSeq(evs, LAMBDA e : e.evidence_level = "C"))
        found == (IF near_term_earnings # <<>> THEN <<EarningsGapRisk>> ELSE <<>>)
                 \o (IF evs = <<>> \/ 10 * c_count > 4 * Len(evs)
                     THEN <<EvidenceQualityRisk>> ELSE <<>>)
                 \o (IF conv.score < MediumThreshold THEN <<LowConvictionRisk>> ELSE <<>>)
    IN [risks |-> [i \in 1..Len(found) |-> found[i].risk],
        hedges |-> [i \in 1..Len(found) |-> found[i].hedge] \o <<DefaultHedge>>,
        max_position_pct |-> Min(recommended_position_pct(trade_plan), 2000),
        stop_policy |-> [kind |-> "hard_stop", pct |-> trade_plan.base_case.stop_loss_pct],
        forced_explanation_rule |->
            "Mandatory post-move explanation if 3-day drawdown >8% or single-day drop >5%"]

\* RiskAgent.assess at the instant at; c_ratio > 0.4 is compared as
\* 10 * c_count > 4 * len(events), and c_ratio is 1 for no events
assess(trade_plan, evs, conv, at) ==
    LET near_term_earnings ==
            SelectSeq(evs, LAMBDA e : /\ e.event_type = "earnings_release"
                                      /\ at <= e.occurred_at.utc
                                      /\ e.occurred_at.utc <= at + Days(7))
        c_count == Len(SelectSeq(evs, LAMBDA e : e.evidence_level = "C"))
        found == (IF near_term_earnings # <<>> THEN <<EarningsGapRisk>> ELSE <<>>)
                 \o (IF evs = <<>> \/ 10 * c_count > 4 * Len(evs)
                     THEN <<EvidenceQualityRisk>> ELSE <<>>)
                 \o (IF conv.score < MediumThreshold THEN <<LowConvictionRisk>> ELSE <<>>)
    IN [risks |-> [i \in 1..Len(found) |-> found[i].risk],
        hedges |-> IF found = <<>> THEN <<DefaultHedge>>
                   ELSE [i \in 1..Len(found) |-> found[i].hedge],
        max_position_pct |-> Min(recommended_position_pct(trade_plan), 2000),
        stop_policy |-> [kind |-> "hard_stop", pct |-> trade_plan.base_case.stop_loss_pct],
        forced_explanation_rule |->
            "Mandatory post-move explanation if 3-day drawdown >8% or single-day drop >5%"]

(***************************************************************************)
(* models/position.py: Position.  Quantities and prices are whole numbers, *)
(* average_cost and realized_pnl exact fractions.                          *)
(***************************************************************************)
Abs(x) == IF x < 0 THEN -x ELSE x

RECURSIVE Gcd(_, _)
Gcd(a, b) == IF b = 0 THEN a ELSE Gcd(b, a % b)

\* num / den in lowest terms, den > 0
Fraction(num, den) ==
    LET g == Gcd(Abs(num), den) IN <<num \div g, den \div g>>

\* the outcome of a method: the Position after it, and what it raised
Returned(p) == [position |-> p, raised |-> NoRaise]
Refused(p, message) == [position |-> p, raised |-> Raise("ValueError", message)]

\* Position.open at the call number at
open(p, quantity, price, at) ==
    IF p.status = OPEN THEN Refused(p, "position is already open")
    ELSE IF quantity <= 0 \/ price <= 0
    THEN Refused(p, "quantity and price must be positive")
    ELSE Returned([p EXCEPT !.quantity = quantity,
                            !.average_cost = <<price, 1>>,
                            !.current_price = price,
                            !.status = OPEN,
                            !.opened_at = at,
                            !.closed_at = NoTime])

\* Position.add: total_cost / quantity of lines 45-47
add(p, quantity, price) ==
    IF p.status # OPEN THEN Refused(p, "position must be open before adding")
    ELSE IF quantity <= 0 \/ price <= 0
    THEN Refused(p, "quantity and price must be positive")
    ELSE LET num == p.average_cost[1]
             den == p.average_cost[2]
         IN Returned([p EXCEPT !.quantity = p.quantity + quantity,
                               !.average_cost =
                                   Fraction(num * p.quantity + price * quantity * den,
                                            den * (p.quantity + quantity)),
                               !.current_price = price])

\* reduce that leaves the status as it is when the quantity reaches 0
reduce_without_close(p, quantity, price, at) ==
    IF p.status # OPEN THEN Refused(p, "position must be open before reducing")
    ELSE IF quantity <= 0 \/ price <= 0
    THEN Refused(p, "quantity and price must be positive")
    ELSE IF quantity > p.quantity
    THEN Refused(p, "cannot reduce more than current quantity")
    ELSE Returned([p EXCEPT !.quantity = p.quantity - quantity, !.current_price = price])

\* Position.reduce at the call number at: realized_pnl += (price - average_cost) * quantity
reduce(p, quantity, price, at) ==
    IF p.status # OPEN THEN Refused(p, "position must be open before reducing")
    ELSE IF quantity <= 0 \/ price <= 0
    THEN Refused(p, "quantity and price must be positive")
    ELSE IF quantity > p.quantity
    THEN Refused(p, "cannot reduce more than current quantity")
    ELSE LET num == p.average_cost[1]
             den == p.average_cost[2]
             left == p.quantity - quantity
         IN Returned([p EXCEPT !.realized_pnl =
                                   Fraction(p.realized_pnl[1] * den
                                                + (price * den - num) * quantity * p.realized_pnl[2],
                                            p.realized_pnl[2] * den),
                               !.quantity = left,
                               !.current_price = price,
                               !.status = IF left = 0 THEN CLOSED ELSE @,
                               !.closed_at = IF left = 0 THEN at ELSE @])

\* Position.mark_to_market
mark_to_market(p, latest_price) ==
    IF latest_price <= 0 THEN Refused(p, "latest_price must be positive")
    ELSE Returned([p EXCEPT !.current_price = latest_price])

(***************************************************************************)
(* models/event.py: Event.__post_init__                                    *)
(***************************************************************************)
\* a datetime without tzinfo (its wall clock in minutes) and one with tzinfo
\* (the instant in minutes since the epoch and the UTC offset)
Naive(wall) == [wall |-> wall]
Aware(instant, offset) == [utc |-> instant, utcoffset |-> offset]
IsNaive(dt) == "wall" \in DOMAIN dt

\* Event(**a): the dataclass fields, then __post_init__ (lines 28-35);
\* occurred_at.replace(tzinfo=timezone.utc) reads the wall clock as UTC
Event_post_init(a) ==
    IF a.ticker = ""
    THEN Raise("ValueError", "ticker must not be empty")
    ELSE IF a.importance < 1 \/ a.importance > 5
    THEN Raise("ValueError", "importance must be in range [1, 5]")
    ELSE [a EXCEPT !.occurred_at = IF IsNaive(@) THEN Aware(@.wall, 0) ELSE @]

(***************************************************************************)
(* The lists handed to validate                                            *)
(***************************************************************************)
\* titles: the first two normalize to "q1", the third to "8 k"
Titles == {<<"Q", "1">>, <<" ", "q", "1", "!">>, <<"8", "-", "K">>}

\* occurrence times, in minutes since the epoch with the UTC offset of the
\* datetime: 21:40 and 23:10 UTC of one day, 90 minutes apart
TimePoints == {[utc |-> 1300, utcoffset |-> 0], [utc |-> 1390, utcoffset |-> 0]}

\* conflict_window_minutes: 30 in test_agents.py, 90 by default
Windows == {30, 90}

\* an Event without its event_id: two tickers, three titles, two times
EventFields ==
    [ticker : {"AAPL", "MSFT"},
     event_type : {"earnings_release"},
     title : Titles,
     occurred_at : TimePoints,
     evidence_level : {"B"},
     importance : {3}]

\* the events of one reconciliation group: one ticker, category, title and date,
\* every tier, two importances, two times
GroupFields ==
    [ticker : {"AAPL"},
     event_type : {"earnings_release"},
     title : {<<"Q", "1">>},
     occurred_at : TimePoints,
     evidence_level : EvidenceLevel,
     importance : {3, 5}]

\* Event: event_id is a fresh uuid4 per event, here the position in the list
Event(f, id) ==
    [event_id |-> id, ticker |-> f.ticker, event_type |-> f.event_type, title |-> f.title,
     occurred_at |-> f.occurred_at, evidence_level |-> f.evidence_level,
     importance |-> f.importance]

\* TimelineValidator.__init__(conflict_window_minutes); no event gathered yet
InitTL ==
    /\ conflict_window \in Windows
    /\ events = <<>>
    /\ result = NoResult
    /\ initial_state = S0_OBSERVE /\ state = S0_OBSERVE /\ history = <<>> /\ clock = 0
    /\ last = NoCall /\ ret = NoReturn /\ script = -1
    /\ AgentsIdle
    /\ CallsIdle

\* the caller gathers one more event (all_events.extend of build_timeline)
AddEvent(f, bound) ==
    /\ result = NoResult
    /\ Len(events) < bound
    /\ events' = Append(events, Event(f, Len(events) + 1))
    /\ UNCHANGED <<conflict_window, result>>
    /\ UNCHANGED smVars
    /\ UNCHANGED agVars
    /\ UNCHANGED callVars

\* one call validator.validate(events)
Validate ==
    /\ result = NoResult
    /\ result' = validate(events, conflict_window)
    /\ UNCHANGED <<conflict_window, events>>
    /\ UNCHANGED smVars
    /\ UNCHANGED agVars
    /\ UNCHANGED callVars

NextTL ==
    \/ \E f \in EventFields : AddEvent(f, MaxEvents)
    \/ Validate

\* validate on lists of any events
SpecTL == InitTL /\ [][NextTL]_vars

NextGroup ==
    \/ \E f \in GroupFields : AddEvent(f, MaxGroup)
    \/ Validate

\* validate on lists whose events all fall in one reconciliation group
SpecGroup == InitTL /\ [][NextGroup]_vars

\* the events of two interleaved reconciliation groups: one ticker, category and
\* date, two titles, two times
SplitFields ==
    [ticker : {"AAPL"},
     event_type : {"earnings_release"},
     title : {<<"Q", "1">>, <<"8", "-", "K">>},
     occurred_at : TimePoints,
     evidence_level : {"B"},
     importance : {3}]

\* a second call validator.validate(result.events) on the returned events
Revalidate ==
    /\ result # NoResult
    /\ revalidated = NoResult
    /\ revalidated' = validate(result.events, conflict_window)
    /\ UNCHANGED <<smVars, tlVars, agVars>>
    /\ UNCHANGED <<supplied_checks, assessed_plan, position, position_call, position_raised>>

NextSplit ==
    \/ \E f \in SplitFields : AddEvent(f, MaxSplit)
    \/ Validate
    \/ Revalidate

\* validate, then validate again on what it returned, on lists whose events
\* fall in two reconciliation groups
SpecSplit == InitTL /\ [][NextSplit]_vars

\* source locators: a host of TIER_A_DOMAINS; an upper-case host that holds
\* "investor"; a host of TIER_B_DOMAINS; an unlisted host whose path names a
\* listed one; a listed host written without scheme and "//"
SourceUrls ==
    {<<"h", "t", "t", "p", "s", ":", "/", "/", "w", "w", "w", ".", "s", "e", "c", ".", "g", "o", "v", "/", "a">>,
     <<"h", "t", "t", "p", "s", ":", "/", "/", "I", "R", ".", "I", "n", "v", "e", "s", "t", "o", "r", "s", ".", "c", "o", "/", "q">>,
     <<"h", "t", "t", "p", "s", ":", "/", "/", "w", "w", "w", ".", "r", "e", "u", "t", "e", "r", "s", ".", "c", "o", "m", "/", "a">>,
     <<"h", "t", "t", "p", "s", ":", "/", "/", "x", ".", "c", "o", "m", "/", "w", "w", "w", ".", "s", "e", "c", ".", "g", "o", "v">>,
     <<"w", "w", "w", ".", "s", "e", "c", ".", "g", "o", "v", "/", "a">>}

\* occurrence times of the sourced events: 18:40 and 21:40 UTC of one day and
\* 00:40 UTC of the next, each 180 minutes from the one before
SourcedTimePoints ==
    {[utc |-> 1120, utcoffset |-> 0], [utc |-> 1300, utcoffset |-> 0],
     [utc |-> 1480, utcoffset |-> 0]}

\* an Event as a fetcher hands it over, without its event_id: one ticker,
\* category and title, the tier the fetcher attached
SourcedFields ==
    [ticker : {"AAPL"},
     event_type : {"earnings_release"},
     title : {<<"Q", "1">>},
     occurred_at : SourcedTimePoints,
     source_url : SourceUrls,
     evidence_level : EvidenceLevel,
     importance : {5}]

\* Event with its source_url
SourcedEvent(f, id) ==
    [event_id |-> id, ticker |-> f.ticker, event_type |-> f.event_type, title |-> f.title,
     occurred_at |-> f.occurred_at, source_url |-> f.source_url,
     evidence_level |-> f.evidence_level, importance |-> f.importance]

\* the validators of test_evidence_and_timeline_validation: EvidenceValidator()
\* and TimelineValidator(conflict_window_minutes=30)
InitEV ==
    /\ conflict_window = 30
    /\ events = <<>>
    /\ result = NoResult
    /\ AgentsIdle
    /\ SMIdle
    /\ CallsIdle

\* a fetcher hands over one more event
AddSourcedEvent(f) ==
    /\ evidence = NoResult
    /\ Len(events) < MaxSourced
    /\ events' = Append(events, SourcedEvent(f, Len(events) + 1))
    /\ UNCHANGED <<conflict_window, result, evidence>>
    /\ UNCHANGED <<smVars, otherAgVars>>
    /\ UNCHANGED callVars

\* evidence_result = validator.validate(events)
ValidateEvidence ==
    /\ evidence = NoResult
    /\ evidence' = evidence_validate(events)
    /\ UNCHANGED <<conflict_window, events, result>>
    /\ UNCHANGED <<smVars, otherAgVars>>
    /\ UNCHANGED callVars

\* timeline_result = timeline.validate(evidence_result.events)
ValidateTimeline ==
    /\ evidence # NoResult
    /\ result = NoResult
    /\ result' = validate(evidence.events, conflict_window)
    /\ UNCHANGED <<conflict_window, events, evidence>>
    /\ UNCHANGED <<smVars, otherAgVars>>
    /\ UNCHANGED callVars

NextEV ==
    \/ \E f \in SourcedFields : AddSourcedEvent(f)
    \/ ValidateEvidence
    \/ ValidateTimeline

\* EvidenceValidator.validate and then TimelineValidator.validate on its events
SpecEV == InitEV /\ [][NextEV]_vars

\* an Event with its details, as the agents read it
DetailedEvent(f, id) ==
    [event_id |-> id, ticker |-> f.ticker, event_type |-> f.event_type, title |-> f.title,
     occurred_at |-> f.occurred_at, evidence_level |-> f.evidence_level,
     importance |-> f.importance, details |-> f.details]

\* the fields of one scored event
Scored(event_type, title, level, importance, details) ==
    [ticker |-> "AAPL", event_type |-> event_type, title |-> title,
     occurred_at |-> [utc |-> 1300, utcoffset |-> 0],
     evidence_level |-> level, importance |-> importance, details |-> details]

\* the events handed to ConvictionAgent.score: earnings releases, news clues,
\* options snapshots in each band of implied volatility, a filing.  The
\* volatilities are such that the float average of the code and the exact
\* average of the model fall in the same band for every list of them.
ScoredFields ==
    {Scored("earnings_release", <<"Q", "1">>, "A", 5, NoDetails),
     Scored("earnings_release", <<"Q", "1">>, "B", 3, NoDetails),
     Scored("news_clue", <<"Q", "1">>, "C", 1, NoDetails),
     Scored("news_clue", <<"Q", "1">>, "C", 3, NoDetails),
     Scored("options_iv_snapshot", <<"Q", "1">>, "B", 3, [atm_iv |-> 80]),
     Scored("options_iv_snapshot", <<"Q", "1">>, "B", 3, [atm_iv |-> 45]),
     Scored("options_iv_snapshot", <<"Q", "1">>, "B", 2, [atm_iv |-> 60]),
     Scored("options_iv_snapshot", <<"Q", "1">>, "C", 3, [atm_iv |-> 25]),
     Scored("sec_filing", <<"8", "-", "K">>, "A", 4, NoDetails)}

\* ConvictionAgent(); no event gathered yet
InitScore ==
    /\ conflict_window = 0 /\ events = <<>> /\ result = NoResult
    /\ AgentsIdle
    /\ SMIdle
    /\ CallsIdle

\* the caller gathers one more event
AddScoredEvent(f, bound) ==
    /\ result = NoResult /\ conviction = NoResult
    /\ Len(events) < bound
    /\ events' = Append(events, DetailedEvent(f, Len(events) + 1))
    /\ UNCHANGED <<conflict_window, result>>
    /\ UNCHANGED <<smVars, agVars>>
    /\ UNCHANGED callVars

\* one call ConvictionAgent().score(evs, conflict_count=conflicts, pending_count=pendings)
Score(evs, conflicts, pendings) ==
    /\ conviction = NoResult
    /\ conflict_count' = conflicts
    /\ pending_count' = pendings
    /\ conviction' = score(evs, conflicts, pendings)
    /\ UNCHANGED <<smVars, tlVars>>
    /\ UNCHANGED <<evidence, utcnow, research, thesis, execution, risk, scenario_args,
                   scenario, event_args, constructed>>
    /\ UNCHANGED callVars

NextScore ==
    \/ \E f \in ScoredFields : AddScoredEvent(f, MaxScored)
    \/ \E conflicts \in 0..MaxConflicts, pendings \in 0..MaxPending :
           Score(events, conflicts, pendings)

\* ConvictionAgent.score on any event list with any counts
SpecScore == InitScore /\ [][NextScore]_vars

\* the arguments of TradeScenario(...): each fraction below, at and above
\* the ends of its range
ScenarioArgs ==
    [entry_trigger : {"entry"},
     stop_loss_pct : {-300, -1, 0, 1, 300},
     take_profit_pct : {-1, 0, 1, 700},
     position_size_pct : {-200, -1, 0, 200, One - 1, One, One + 1},
     add_on_condition : {""},
     invalidation_condition : {""},
     notes : {""}]

\* no TradeScenario built yet
InitScenario ==
    /\ conflict_window = 0 /\ events = <<>> /\ result = NoResult
    /\ AgentsIdle
    /\ SMIdle
    /\ CallsIdle

\* one call TradeScenario(**a)
ConstructScenario(a) ==
    /\ scenario_args' = a
    /\ scenario' = TradeScenario(a)
    /\ UNCHANGED <<smVars, tlVars>>
    /\ UNCHANGED <<evidence, conflict_count, pending_count, conviction, utcnow, research,
                   thesis, execution, risk, event_args, constructed>>
    /\ UNCHANGED callVars

NextScenario == \E a \in ScenarioArgs : ConstructScenario(a)

\* TradeScenario built from any fractions
SpecScenario == InitScenario /\ [][NextScenario]_vars

\* the ticker handed to the agents
PlanTicker == <<"a", "a", "p", "l">>

\* theses with no, one, two and three falsification conditions
ThesisWith(conditions) ==
    [ticker |-> Upper(PlanTicker),
     main_hypothesis |-> [kind |-> "event_rich_window", ticker |-> Upper(PlanTicker)],
     falsification_conditions |-> conditions,
     win_paths |-> WinPaths,
     loss_paths |-> LossPaths,
     verification_tasks |-> StandardTasks,
     has_changed |-> FALSE,
     change_reason |-> ""]

Theses == {ThesisWith(SubSeq(FalsificationConditions, 1, k)) : k \in 0..3}

\* one call ExecutionAgent().create_plan(ticker, conviction, th, evs)
CreatePlan(ticker, th, evs) ==
    /\ conviction # NoResult
    /\ execution = NoResult
    /\ thesis' = th
    /\ execution' = create_plan(ticker, conviction, th, evs)
    /\ UNCHANGED <<smVars, tlVars>>
    /\ UNCHANGED <<evidence, conflict_count, pending_count, conviction, utcnow, research,
                   risk, scenario_args, scenario, event_args, constructed>>
    /\ UNCHANGED callVars

NextPlan ==
    \/ \E f \in ScoredFields : AddScoredEvent(f, MaxScored)
    \/ \E conflicts \in 0..MaxConflicts, pendings \in 0..MaxPending :
           Score(events, conflicts, pendings)
    \/ \E th \in Theses : CreatePlan(PlanTicker, th, events)

\* ExecutionAgent.create_plan on any conviction result and any thesis
SpecPlan == InitScore /\ [][NextPlan]_vars

\* the instants the agents run at: just more than seven days before the
\* events, seven days before them, with them and just after them
NowPoints == {1300 - Days(7) - 1, 1300 - Days(7), 1300, 1301}

\* the agents of run_workflow, the validator with either window; no event yet
InitFlow ==
    /\ conflict_window \in Windows /\ events = <<>> /\ result = NoResult
    /\ evidence = NoResult
    /\ conflict_count = 0 /\ pending_count = 0 /\ conviction = NoResult
    /\ utcnow \in NowPoints /\ research = NoResult
    /\ thesis = NoResult /\ execution = NoResult /\ risk = NoResult
    /\ scenario_args = NoResult /\ scenario = NoResult
    /\ event_args = NoResult /\ constructed = NoResult
    /\ SMIdle
    /\ CallsIdle

\* conviction_agent.score(events, len(conflicts), len(pending_checks)) on the
\* validated timeline
ScoreTimeline ==
    /\ result # NoResult
    /\ Score(result.events, Len(result.conflicts), Len(result.pending_checks))

\* research_agent.analyze(ticker, events, pending_checks) on the validated timeline
Analyze ==
    /\ conviction # NoResult
    /\ research = NoResult
    /\ research' = analyze(PlanTicker, result.events, result.pending_checks, utcnow)
    /\ UNCHANGED <<smVars, tlVars>>
    /\ UNCHANGED <<evidence, conflict_count, pending_count, conviction, utcnow, thesis,
                   execution, risk, scenario_args, scenario, event_args, constructed>>
    /\ UNCHANGED callVars

\* execution_agent.create_plan(ticker, conviction, research_report.thesis, events)
PlanTimeline ==
    /\ research # NoResult
    /\ CreatePlan(PlanTicker, research.thesis, result.events)

\* risk_agent.assess(execution_report.trade_plan, events, conviction)
Assess ==
    /\ execution # NoResult /\ ~Raised(execution)
    /\ risk = NoResult
    /\ risk' = assess(execution.trade_plan, result.events, conviction, utcnow)
    /\ UNCHANGED <<smVars, tlVars>>
    /\ UNCHANGED <<evidence, conflict_count, pending_count, conviction, utcnow, research,
                   thesis, execution, scenario_args, scenario, event_args, constructed>>
    /\ UNCHANGED callVars

NextFlow ==
    \/ \E f \in ScoredFields : AddScoredEvent(f, MaxFlow)
    \/ Validate
    \/ ScoreTimeline
    \/ Analyze
    \/ PlanTimeline
    \/ Assess

\* the chain validate, score, analyze, create_plan, assess on one event list
SpecFlow == InitFlow /\ [][NextFlow]_vars

\* a TradeScenario of position_size_pct size, the other fields as create_plan
\* writes them for a LOW score
ScenarioOfSize(size) ==
    TradeScenario(
        [entry_trigger |-> "If gap move >8%, wait for pullback/retest before entry",
         stop_loss_pct |-> 300,
         take_profit_pct |-> 600,
         position_size_pct |-> size,
         add_on_condition |-> "No add-on unless second A-tier source confirms",
         invalidation_condition |-> FalsificationConditions[1],
         notes |-> "Alt Case: volatility control scenario"])

\* TradePlan(ticker, conviction_score, base_case, alt_case); status keeps its
\* default "draft"
TradePlan(base_size, alt_size) ==
    [ticker |-> Upper(PlanTicker), conviction_score |-> 0,
     base_case |-> ScenarioOfSize(base_size), alt_case |-> ScenarioOfSize(alt_size),
     status |-> "draft"]

\* the plans handed to assess: the sizes of create_plan for a LOW and a HIGH
\* score, and sizes above 0.20 in the base and in the alt scenario
RiskPlans ==
    {TradePlan(200, 0), TradePlan(2000, 1200), TradePlan(5000, 3000), TradePlan(1000, One)}

\* RiskAgent() at one of the instants; no event gathered yet
InitRisk ==
    /\ conflict_window = 0 /\ events = <<>> /\ result = NoResult
    /\ evidence = NoResult
    /\ conflict_count = 0 /\ pending_count = 0 /\ conviction = NoResult
    /\ utcnow \in NowPoints /\ research = NoResult
    /\ thesis = NoResult /\ execution = NoResult /\ risk = NoResult
    /\ scenario_args = NoResult /\ scenario = NoResult
    /\ event_args = NoResult /\ constructed = NoResult
    /\ CallsIdle
    /\ SMIdle

\* one call RiskAgent().assess(plan, events, conviction)
AssessPlan(plan) ==
    /\ conviction # NoResult
    /\ risk = NoResult
    /\ assessed_plan' = plan
    /\ risk' = assess(plan, events, conviction, utcnow)
    /\ UNCHANGED <<smVars, tlVars>>
    /\ UNCHANGED <<evidence, conflict_count, pending_count, conviction, utcnow, research,
                   thesis, execution, scenario_args, scenario, event_args, constructed>>
    /\ UNCHANGED <<revalidated, supplied_checks, position, position_call, position_raised>>

NextRisk ==
    \/ \E f \in ScoredFields : AddScoredEvent(f, MaxFlow)
    \/ \E conflicts \in {0, MaxConflicts}, pendings \in {0, MaxPending} :
           Score(events, conflicts, pendings)
    \/ \E plan \in RiskPlans : AssessPlan(plan)

\* RiskAgent.assess on any plan, any events and any conviction result
SpecRisk == InitRisk /\ [][NextRisk]_vars

\* the quantities and prices handed to the Position: none, negative, positive
Quantities == {-1, 0, 1, 2}
Prices == {-1, 0, 1, 3}

\* Position(ticker): the default Position, no call made yet
InitPosition ==
    /\ conflict_window = 0 /\ events = <<>> /\ result = NoResult
    /\ AgentsIdle
    /\ CallsIdle
    /\ SMIdle

\* one call of a method of the Position, with its outcome
PositionCall(call, outcome) ==
    /\ position_call.at < MaxPositionCalls
    /\ position_call' = call
    /\ position' = outcome.position
    /\ position_raised' = outcome.raised
    /\ UNCHANGED <<smVars, tlVars, agVars>>
    /\ UNCHANGED <<revalidated, supplied_checks, assessed_plan>>

\* position.open(quantity, price)
Open(quantity, price) ==
    LET at == position_call.at + 1
    IN PositionCall([method |-> "open", quantity |-> quantity, price |-> price, at |-> at],
                    open(position, quantity, price, at))

\* position.add(quantity, price)
Add(quantity, price) ==
    PositionCall([method |-> "add", quantity |-> quantity, price |-> price,
                  at |-> position_call.at + 1],
                 add(position, quantity, price))

\* position.reduce(quantity, price)
Reduce(quantity, price) ==
    LET at == position_call.at + 1
    IN PositionCall([method |-> "reduce", quantity |-> quantity, price |-> price, at |-> at],
                    reduce(position, quantity, price, at))

\* position.mark_to_market(latest_price)
MarkToMarket(latest_price) ==
    PositionCall([method |-> "mark_to_market", quantity |-> 0, price |-> latest_price,
                  at |-> position_call.at + 1],
                 mark_to_market(position, latest_price))

NextPosition ==
    \/ \E quantity \in Quantities, price \in Prices : Open(quantity, price)
    \/ \E quantity \in Quantities, price \in Prices : Add(quantity, price)
    \/ \E quantity \in Quantities, price \in Prices : Reduce(quantity, price)
    \/ \E latest_price \in Prices : MarkToMarket(latest_price)

\* a default Position under any sequence of open, add, reduce, mark_to_market
SpecPosition == InitPosition /\ [][NextPosition]_vars

\* the events handed to ResearchAgent.analyze: a B-tier release, a C-tier clue
ResearchFields ==
    {Scored("earnings_release", <<"Q", "1">>, "B", 3, NoDetails),
     Scored("news_clue", <<"Q", "1">>, "C", 1, NoDetails)}

\* the pending check "Verify news_clue from A/B source: Q<n>"
Verify(n) == [kind |-> "verify", event_type |-> "news_clue", title |-> <<"Q", Chr(48 + n)>>]

\* the pending_checks a caller hands to analyze: none, one, repeated ones, four,
\* five and six distinct ones, and lists that hold the text of a standard task
SuppliedChecks ==
    {<<>>,
     <<Verify(1)>>,
     <<Verify(1), Verify(1)>>,
     <<Verify(1), Verify(2), Verify(1)>>,
     <<Verify(1), Verify(2), Verify(1), Verify(3), Verify(4)>>,
     <<Verify(1), Verify(2), Verify(3), Verify(4), Verify(5)>>,
     <<Verify(1), Verify(2), Verify(3), Verify(4), Verify(5), Verify(6)>>,
     <<Verify(6), Verify(5), Verify(5), Verify(4), Verify(3), Verify(2), Verify(1)>>,
     <<StandardTasks[4], Verify(1)>>,
     <<Verify(1), Verify(2), Verify(3), Verify(4), StandardTasks[2]>>}

\* ResearchAgent(); no event gathered yet
InitResearch ==
    /\ conflict_window = 0 /\ events = <<>> /\ result = NoResult
    /\ AgentsIdle
    /\ CallsIdle
    /\ SMIdle

\* the caller gathers one more event
AddResearchEvent(f) ==
    /\ research = NoResult
    /\ Len(events) < MaxResearch
    /\ events' = Append(events, DetailedEvent(f, Len(events) + 1))
    /\ UNCHANGED <<conflict_window, result>>
    /\ UNCHANGED <<smVars, agVars, callVars>>

\* one call ResearchAgent().analyze(ticker, events, checks)
AnalyzeSupplied(checks) ==
    /\ research = NoResult
    /\ supplied_checks' = checks
    /\ research' = analyze(PlanTicker, events, checks, utcnow)
    /\ UNCHANGED <<smVars, tlVars>>
    /\ UNCHANGED <<evidence, conflict_count, pending_count, conviction, utcnow, thesis,
                   execution, risk, scenario_args, scenario, event_args, constructed>>
    /\ UNCHANGED <<revalidated, assessed_plan, position, position_call, position_raised>>

NextResearch ==
    \/ \E f \in ResearchFields : AddResearchEvent(f)
    \/ \E checks \in SuppliedChecks : AnalyzeSupplied(checks)

\* ResearchAgent.analyze on any events and any pending checks
SpecResearch == InitResearch /\ [][NextResearch]_vars

\* the arguments of Event(...): an empty, a blank and a usual ticker, every
\* importance from 0 to 6, naive times and times in UTC, UTC+8 and UTC-5
EventArgs ==
    [ticker : {"", " ", "AAPL"},
     event_type : {"earnings_release"},
     title : {<<"Q", "1">>},
     occurred_at : {Naive(1300), Aware(1300, 0), Aware(1300, 480),
                    Aware(1300, -300), Aware(30, -300)},
     source_url : {<<"u">>},
     evidence_level : {"B"},
     importance : 0..6]

\* no Event built yet
InitEvent ==
    /\ conflict_window = 0 /\ events = <<>> /\ result = NoResult
    /\ AgentsIdle
    /\ SMIdle
    /\ CallsIdle

\* one call Event(**a)
ConstructEvent(a) ==
    /\ event_args' = a
    /\ constructed' = Event_post_init(a)
    /\ UNCHANGED <<smVars, tlVars>>
    /\ UNCHANGED <<evidence, conflict_count, pending_count, conviction, utcnow, research,
                   thesis, execution, risk, scenario_args, scenario>>
    /\ UNCHANGED callVars

NextEvent == \E a \in EventArgs : ConstructEvent(a)

\* Event built from any arguments
SpecEvent == InitEvent /\ [][NextEvent]_vars

(***************************************************************************)
(* Properties of TradingStateMachine                                       *)
(***************************************************************************)
Called == last # NoCall

LastRecord == history[Len(history)]

\* C1: whatever the state before the call and whatever conviction_score,
\* has_position and take_profit_hit are, an update call with thesis_falsified or
\* stop_loss_hit set returns S5_EXITED and leaves the machine in S5_EXITED.
C1_ExitGuardFirst ==
    (Called /\ (last.thesis_falsified \/ last.stop_loss_hit))
        => (state = S5_EXITED /\ ret = S5_EXITED)

\* a falsified thesis took the machine out of S3_VALIDATING although the call also
\* carried a position, a score above the threshold and take_profit_hit
C1_Witness ==
    /\ Called /\ last.thesis_falsified /\ ~last.stop_loss_hit
    /\ last.take_profit_hit /\ last.has_position
    /\ last.conviction_score >= TradableThreshold
    /\ state = S5_EXITED
    /\ Len(history) > 0 /\ LastRecord.from_state = S3_VALIDATING
    /\ LastRecord.changed_at = clock

\* C2: once the machine is in S5_EXITED every further update call returns
\* S5_EXITED, keeps the state and appends nothing to history.
C2_ExitedTerminal ==
    [][state = S5_EXITED
          => (state' = S5_EXITED /\ history' = history /\ ret' = S5_EXITED)]_vars

\* two calls were made after the machine exited, the latest one with the
\* arguments of the retreat guard
C2_Witness ==
    /\ state = S5_EXITED /\ Len(history) > 0
    /\ LastRecord.to_state = S5_EXITED /\ LastRecord.changed_at + 2 <= clock
    /\ ~last.thesis_falsified /\ ~last.stop_loss_hit
    /\ last.conviction_score < TradableThreshold /\ ~last.has_position

\* C3: an update call either keeps state and history, or changes the state and
\* appends one record (from = state before, to = state after, from # to) behind
\* the records already there, which stay as they were.
C3_HistoryAppendOnly ==
    [][\/ (state' = state /\ history' = history)
       \/ /\ state' # state
          /\ Len(history') = Len(history) + 1
          /\ SubSeq(history', 1, Len(history)) = history
          /\ history'[Len(history')].from_state = state
          /\ history'[Len(history')].to_state = state'
          /\ history'[Len(history')].from_state # history'[Len(history')].to_state]_vars

\* both cases happened: two transitions are on record and some call changed nothing
C3_Witness ==
    /\ Len(history) >= 2 /\ clock > Len(history)
    /\ LastRecord.changed_at = clock

\* the states test_state_machine_transitions expects, call by call
LifecycleExpected ==
    <<S1_WARMUP, S2_POSITION_ON, S3_VALIDATING, S4_REALIZING, S5_EXITED>>

\* C4: replaying the five calls of the lifecycle test on a fresh machine returns
\* WARMUP, POSITION_ON, VALIDATING, REALIZING, EXITED, one per call, and history
\* then holds exactly these five transitions in order.
C4_LifecycleScript ==
    (script >= 1)
        => /\ ret = LifecycleExpected[script]
           /\ state = LifecycleExpected[script]
           /\ Len(history) = script
           /\ \A i \in 1..script :
                /\ history[i].to_state = LifecycleExpected[i]
                /\ history[i].from_state =
                       (IF i = 1 THEN S0_OBSERVE ELSE LifecycleExpected[i - 1])
                /\ history[i].changed_at = i

\* the whole script was replayed
C4_Witness == script = Len(LifecycleScript) /\ state = S5_EXITED

\* the arguments the retreat guard is about
RetreatArgs(a) ==
    /\ a.conviction_score < TradableThreshold /\ ~a.has_position
    /\ ~a.thesis_falsified /\ ~a.stop_loss_hit

\* C5: from every state but S5_EXITED an update with score < 60, no position, no
\* falsification and no stop-loss moves the machine to S0_OBSERVE, except that
\* S4_REALIZING goes to S5_EXITED and S3_VALIDATING with take_profit_hit goes to
\* S4_REALIZING (the guards tested earlier).
C5_RetreatGuard ==
    [][(clock' = clock + 1 /\ RetreatArgs(last') /\ state # S5_EXITED)
          => state' = (IF state = S4_REALIZING THEN S5_EXITED
                       ELSE IF state = S3_VALIDATING /\ last'.take_profit_hit
                            THEN S4_REALIZING
                       ELSE S0_OBSERVE)]_vars

\* the machine retreated from S2_POSITION_ON to S0_OBSERVE
C5_Witness ==
    /\ Called /\ RetreatArgs(last) /\ state = S0_OBSERVE
    /\ Len(history) > 0 /\ LastRecord.from_state = S2_POSITION_ON
    /\ LastRecord.changed_at = clock

\* the call carries neither thesis_falsified nor stop_loss_hit
NoExitArgs(a) == ~a.thesis_falsified /\ ~a.stop_loss_hit

\* C20: an update from S0_OBSERVE with conviction_score >= 60 and has_position
\* (no falsification, no stop-loss) moves to S1_WARMUP, not to S2_POSITION_ON; a
\* single update moves S0_OBSERVE to S2_POSITION_ON only with conviction_score
\* < 60 and has_position; from S1_WARMUP an update with has_position (the
\* second one) reaches S2_POSITION_ON.
C20_GuardOrderFromObserve ==
    [][(clock' = clock + 1)
          => /\ (/\ state = S0_OBSERVE /\ NoExitArgs(last')
                 /\ last'.conviction_score >= TradableThreshold /\ last'.has_position)
                    => state' = S1_WARMUP
             /\ (state = S0_OBSERVE /\ state' = S2_POSITION_ON)
                    => (/\ last'.conviction_score < TradableThreshold
                        /\ last'.has_position /\ NoExitArgs(last'))
             /\ (state = S1_WARMUP /\ NoExitArgs(last') /\ last'.has_position)
                    => state' = S2_POSITION_ON]_vars

\* the first call carried a position and a score at the threshold and left the
\* fresh machine in S1_WARMUP
C20_Witness ==
    /\ initial_state = S0_OBSERVE /\ clock = 1 /\ NoExitArgs(last)
    /\ last.conviction_score = TradableThreshold /\ last.has_position
    /\ state = S1_WARMUP /\ Len(history) = 1
    /\ LastRecord.from_state = S0_OBSERVE /\ LastRecord.to_state = S1_WARMUP

(***************************************************************************)
(* Properties of TimelineValidator.validate                                *)
(***************************************************************************)
Validated == result # NoResult

SeqRange(seq) == {seq[i] : i \in 1..Len(seq)}

\* C6: validate on an empty list returns (it raises nothing) an empty event
\* list, an empty conflict list and the single pending check "No events found".
C6_EmptyInput ==
    (Validated /\ events = <<>>)
        => /\ result.events = <<>>
           /\ result.conflicts = <<>>
           /\ result.pending_checks = <<NoEventsFound>>

\* validate was called on the empty list
C6_Witness == Validated /\ events = <<>> /\ Len(result.pending_checks) = 1

\* the distance between the occurrence times of two events
TimeApart(a, b) ==
    IF a.occurred_at.utc >= b.occurred_at.utc
    THEN a.occurred_at.utc - b.occurred_at.utc
    ELSE b.occurred_at.utc - a.occurred_at.utc

\* C7: for two events of one reconciliation group validate returns exactly one
\* of them, with one conflict record when their times lie strictly more than
\* the conflict window apart and none otherwise (none at exactly the window).
C7_PairConflict ==
    (Validated /\ Len(events) = 2 /\ key_func(events[1]) = key_func(events[2]))
        => /\ Len(result.events) = 1
           /\ result.events[1] \in SeqRange(events)
           /\ Len(result.conflicts) =
                  (IF TimeApart(events[1], events[2]) > conflict_window THEN 1 ELSE 0)

\* two events whose titles differ as written and normalize alike, exactly the
\* window apart: no conflict
C7_Witness ==
    /\ Validated /\ Len(events) = 2 /\ key_func(events[1]) = key_func(events[2])
    /\ events[1].title # events[2].title
    /\ TimeApart(events[1], events[2]) = conflict_window
    /\ result.conflicts = <<>> /\ Len(result.events) = 1

\* the pair 90 minutes apart under the 30 minute window: one conflict
C7_WitnessConflict ==
    /\ Validated /\ Len(events) = 2 /\ key_func(events[1]) = key_func(events[2])
    /\ TimeApart(events[1], events[2]) > conflict_window
    /\ Len(result.conflicts) = 1 /\ Len(result.events) = 1

\* C8: the returned events hold exactly one event per reconciliation key of the
\* input: every key of the input is the key of a returned event and no two
\* returned events share a key.
C8_OnePerKey ==
    Validated
        => /\ {key_func(e) : e \in SeqRange(result.events)} = {key_func(e) : e \in SeqRange(events)}
           /\ \A i, j \in 1..Len(result.events) :
                 key_func(result.events[i]) = key_func(result.events[j]) => i = j

\* C9: when all events share one reconciliation key the one event returned has
\* the highest tier priority, among those the highest importance, among those
\* the latest occurrence time.
C9_BestOfGroup ==
    (/\ Validated /\ events # <<>>
     /\ \A i \in 1..Len(events) : key_func(events[i]) = key_func(events[1]))
        => /\ Len(result.events) = 1
           /\ result.events[1] \in SeqRange(events)
           /\ \A e \in SeqRange(events) :
                LET c == result.events[1]
                IN /\ priority(c.evidence_level) >= priority(e.evidence_level)
                   /\ priority(c.evidence_level) = priority(e.evidence_level)
                         => /\ c.importance >= e.importance
                            /\ c.importance = e.importance
                                  => c.occurred_at.utc >= e.occurred_at.utc

\* a group of three where each rule decides: the first event has the higher
\* importance but a lower tier, the third the tier and importance of the chosen
\* second one but an earlier time
C9_Witness ==
    /\ Validated /\ Len(events) = 3 /\ Len(result.events) = 1
    /\ result.events[1] = events[2]
    /\ priority(events[1].evidence_level) < priority(events[2].evidence_level)
    /\ events[1].importance > events[2].importance
    /\ events[3].evidence_level = events[2].evidence_level
    /\ events[3].importance = events[2].importance
    /\ events[3].occurred_at.utc < events[2].occurred_at.utc

\* C10: the returned events are in non-decreasing order of occurrence time,
\* whatever their tickers and categories.
C10_SortedByTime ==
    Validated
        => \A i, j \in 1..Len(result.events) :
               i < j => result.events[i].occurred_at.utc <= result.events[j].occurred_at.utc

\* the later ticker comes first in the returned list because it occurred earlier
C10_Witness ==
    /\ Validated /\ Len(result.events) >= 2
    /\ result.events[1].ticker = "MSFT" /\ result.events[2].ticker = "AAPL"
    /\ result.events[1].occurred_at.utc < result.events[2].occurred_at.utc

\* the list evs handed over in the order p: position i holds evs[p[i]]
Reordered(evs, p) == [i \in 1..Len(evs) |-> evs[p[i]]]

\* C11: validate returns the same events (same identifiers in the same order),
\* the same conflict records and the same pending checks for every order in
\* which the events of its input list are handed over.
C11_OrderIndependent ==
    Validated
        => \A p \in Permutations(1..Len(events)) :
               validate(Reordered(events, p), conflict_window) = result

(***************************************************************************)
(* Properties of EvidenceValidator.validate                                *)
(***************************************************************************)
Classified == evidence # NoResult

\* the tier the classification rule gives a locator: A for a host of the
\* primary list or one that holds "investor", B for a host of the secondary
\* list, C for anything else
RuleTier(source_url) ==
    LET host == Lower(netloc(source_url))
    IN IF host \in TIER_A_DOMAINS \/ Contains(host, Investor) THEN "A"
       ELSE IF host \in TIER_B_DOMAINS THEN "B"
       ELSE "C"

\* C12: EvidenceValidator.validate returns one event per input event, in input
\* order and with the same event_id (and every other field but the tier as it
\* was), and the tier of each returned event is the one the classification rule
\* gives its source_url, whatever tier the input event carried.
C12_OnePerEventTierFromSource ==
    Classified
        => /\ Len(evidence.events) = Len(events)
           /\ \A i \in 1..Len(events) :
                /\ evidence.events[i].event_id = events[i].event_id
                /\ evidence.events[i].evidence_level = RuleTier(events[i].source_url)
                /\ [evidence.events[i] EXCEPT !.evidence_level = events[i].evidence_level]
                       = events[i]

\* the first event carried A from an unlisted host and came back C, the
\* second carried C from an investor host and came back A
C12_Witness ==
    /\ Classified /\ Len(events) = 2 /\ Len(evidence.events) = 2
    /\ events[1].evidence_level = "A" /\ evidence.events[1].evidence_level = "C"
    /\ events[2].evidence_level = "C" /\ evidence.events[2].evidence_level = "A"
    /\ Contains(Lower(netloc(events[2].source_url)), Investor)
    /\ Len(evidence.issues) = 2

\* C19: for two events of one ticker, category and title whose times are 180
\* minutes apart and whose sources classify to different tiers,
\* EvidenceValidator.validate followed by TimelineValidator.validate (30 minute
\* window) returns exactly one event, the one of the higher classified tier,
\* and exactly one conflict record, wherever in the day the two times fall.
C19_EvidenceThenTimeline ==
    (/\ Classified /\ Validated /\ Len(events) = 2
     /\ TimeApart(events[1], events[2]) = 180
     /\ evidence.events[1].evidence_level # evidence.events[2].evidence_level)
        => /\ Len(result.events) = 1
           /\ result.events[1] \in SeqRange(evidence.events)
           /\ \A e \in SeqRange(evidence.events) :
                 priority(result.events[1].evidence_level) >= priority(e.evidence_level)
           /\ Len(result.conflicts) = 1

(***************************************************************************)
(* Properties of ConvictionAgent.score                                     *)
(***************************************************************************)
WasScored == conviction # NoResult

\* C13: for every event list and every non-negative conflict_count and
\* pending_count the four sub-scores lie between 0 and 25, the total is their
\* sum and lies between 0 and 100, and the band is HIGH exactly when the total
\* is >= 75, MEDIUM exactly when it is 60..74 and LOW exactly when it is <= 59.
C13_ScoreRangesAndBand ==
    WasScored
        => LET b == conviction.breakdown
           IN /\ \A part \in {b.information_certainty, b.catalyst_strength,
                                b.expectation_gap, b.execution_feasibility} :
                    part \in 0..25
              /\ conviction.score = b.information_certainty + b.catalyst_strength
                                       + b.expectation_gap + b.execution_feasibility
              /\ conviction.score \in 0..100
              /\ (conviction.band = "HIGH") <=> (conviction.score >= 75)
              /\ (conviction.band = "MEDIUM") <=> (conviction.score \in 60..74)
              /\ (conviction.band = "LOW") <=> (conviction.score <= 59)

\* a total of exactly 75 came out HIGH, with conflicts and pending checks counted
C13_Witness ==
    /\ WasScored /\ conviction.score = 75 /\ conviction.band = "HIGH"
    /\ conflict_count > 0 /\ pending_count > 0 /\ Len(events) = 2

\* C14: ConvictionAgent.score on an empty event list returns total 0 and band LOW.
C14_EmptyScoresZero ==
    (WasScored /\ events = <<>>)
        => (conviction.score = 0 /\ conviction.band = "LOW")

(***************************************************************************)
(* Properties of TradeScenario                                             *)
(***************************************************************************)
ScenarioCalled == scenario_args # NoResult

\* one of the three fractions handed over is out of range
OutOfRange(a) ==
    \/ a.position_size_pct < 0 \/ a.position_size_pct > One
    \/ a.stop_loss_pct <= 0
    \/ a.take_profit_pct <= 0

\* C15: TradeScenario(...) raises a ValueError and builds no scenario whenever
\* position_size_pct is below 0 or above 1, stop_loss_pct is <= 0 or
\* take_profit_pct is <= 0; a scenario that is built holds the fractions as
\* supplied (nothing is clamped), so its size is in [0, 1] and its stop and
\* take-profit are > 0.
C15_ScenarioRejectsOutOfRange ==
    ScenarioCalled
        => /\ OutOfRange(scenario_args)
                 => (Raised(scenario) /\ scenario.raised = "ValueError")
           /\ ~Raised(scenario)
                 => /\ scenario = scenario_args
                    /\ scenario.position_size_pct \in 0..One
                    /\ scenario.stop_loss_pct > 0
                    /\ scenario.take_profit_pct > 0

\* a size just above 1 with a valid stop and take-profit was rejected
C15_Witness ==
    /\ ScenarioCalled /\ scenario_args.position_size_pct = One + 1
    /\ scenario_args.stop_loss_pct > 0 /\ scenario_args.take_profit_pct > 0
    /\ Raised(scenario)

\* a scenario was built from fractions at the ends of their ranges
C15_WitnessBuilt ==
    /\ ScenarioCalled /\ ~Raised(scenario)
    /\ scenario.position_size_pct = One /\ scenario.stop_loss_pct = 1

(***************************************************************************)
(* Properties of ExecutionAgent.create_plan and of the chain of agents     *)
(***************************************************************************)
Planned == execution # NoResult

\* C16: create_plan on a thesis with fewer than two falsification conditions
\* (none or one) raises and returns no ExecutionReport, whatever the
\* conviction score.
C16_PlanNeedsTwoConditions ==
    (Planned /\ Len(thesis.falsification_conditions) < 2)
        => (Raised(execution) /\ execution.raised = "IndexError")

\* a thesis with one condition was rejected at a HIGH conviction score
C16_Witness ==
    /\ Planned /\ Len(thesis.falsification_conditions) = 1
    /\ conviction.score >= HighThreshold
    /\ Raised(execution)

\* a thesis with two conditions was accepted
C16_WitnessAccepted ==
    /\ Planned /\ Len(thesis.falsification_conditions) = 2
    /\ ~Raised(execution) /\ execution.action = "TRADE"

\* C17: on an empty event list the chain validate, score, analyze, create_plan,
\* assess raises nowhere and each step yields its result: a conviction result
\* of band LOW, a thesis with at least two falsification conditions, a plan
\* with action TRACK_ONLY and status watch_only, a risk report with hedges.
C17_EmptyChainCompletes ==
    (Validated /\ events = <<>>)
        => /\ WasScored => conviction.band = "LOW"
           /\ research # NoResult
                 => Len(research.thesis.falsification_conditions) >= 2
           /\ Planned
                 => /\ ~Raised(execution)
                    /\ execution.action = "TRACK_ONLY"
                    /\ execution.trade_plan.status = "watch_only"
           /\ (Planned /\ ~Raised(execution) /\ risk = NoResult) => ENABLED Assess
           /\ risk # NoResult => risk.hedges # <<>>

\* the chain ran to its end on the empty list
C17_Witness ==
    /\ Validated /\ events = <<>> /\ result.events = <<>>
    /\ WasScored /\ research # NoResult /\ Planned /\ risk # NoResult
    /\ pending_count = 1 /\ Len(risk.hedges) = 2

(***************************************************************************)
(* Properties of Event                                                     *)
(***************************************************************************)
EventCalled == event_args # NoResult

\* C18: construction with an empty ticker or an importance outside 1..5 raises
\* and returns no Event; every Event that is returned has a non-empty ticker,
\* an importance in 1..5 and an occurrence time in UTC (offset zero), whether
\* the time was handed over naive or with another offset.
C18_EventNormalized ==
    EventCalled
        => /\ (event_args.ticker = "" \/ event_args.importance \notin 1..5)
                 => Raised(constructed)
           /\ ~Raised(constructed)
                 => /\ constructed.ticker # ""
                    /\ constructed.importance \in 1..5
                    /\ ~IsNaive(constructed.occurred_at)
                    /\ constructed.occurred_at.utcoffset = 0

(***************************************************************************)
(* Properties of the groups of TimelineValidator.validate                  *)
(***************************************************************************)
\* the events of the input list that share the reconciliation key of e
GroupOf(e) == {d \in SeqRange(events) : key_func(d) = key_func(e)}

\* C21: for every reconciliation group whose members are all C-tier, of one
\* event or of several, the pending checks returned by validate hold the entry
\* "<category> on <date> has only C-tier evidence" of that group.
C21_AllCTierGroupPending ==
    Validated
        => \A e \in SeqRange(events) :
               (\A d \in GroupOf(e) : d.evidence_level = "C")
                   => OnlyCTier(e) \in SeqRange(result.pending_checks)

\* the event of the input list that a conflict record names as chosen
ChosenOf(conflict) == CHOOSE e \in SeqRange(events) : e.event_id = conflict.chosen_event_id

\* C22: every conflict record lists the identifiers of all members of its
\* reconciliation group as candidates, its chosen identifier is one of them,
\* and the chosen event is the only member of the group in the returned list.
C22_ConflictCandidates ==
    Validated
        => \A i \in 1..Len(result.conflicts) :
               LET conflict == result.conflicts[i]
                   members == GroupOf(ChosenOf(conflict))
               IN /\ SeqRange(conflict.candidate_event_ids) = {d.event_id : d \in members}
                  /\ conflict.chosen_event_id \in SeqRange(conflict.candidate_event_ids)
                  /\ members \cap SeqRange(result.events) = {ChosenOf(conflict)}

(***************************************************************************)
(* Properties of the history of TradingStateMachine                        *)
(***************************************************************************)
\* C27: after any sequence of update calls the history is a connected chain:
\* the first record starts at the initial state, each record ends where the
\* next one starts, and the last record ends at the current state; with an
\* empty history the current state is the initial state.
C27_HistoryChain ==
    /\ history = <<>> => state = initial_state
    /\ history # <<>>
         => /\ history[1].from_state = initial_state
            /\ \A i \in 1..(Len(history) - 1) : history[i].to_state = history[i + 1].from_state
            /\ LastRecord.to_state = state

\* a machine built in another state than S0_OBSERVE recorded three
\* transitions in four or more calls
C27_Witness ==
    /\ initial_state # S0_OBSERVE
    /\ Len(history) = 3 /\ clock > 3
    /\ history[1].from_state = initial_state
    /\ history[2].to_state = history[3].from_state
    /\ LastRecord.to_state = state

\* the exit through the first guard
ExitReason == "Thesis invalidated or stop-loss triggered"

\* the (from, to) pairs of the forward steps and of the retreat
StepPairs ==
    {<<S0_OBSERVE, S1_WARMUP>>, <<S0_OBSERVE, S2_POSITION_ON>>, <<S1_WARMUP, S2_POSITION_ON>>,
     <<S2_POSITION_ON, S3_VALIDATING>>, <<S3_VALIDATING, S4_REALIZING>>,
     <<S4_REALIZING, S5_EXITED>>,
     <<S1_WARMUP, S0_OBSERVE>>, <<S2_POSITION_ON, S0_OBSERVE>>, <<S3_VALIDATING, S0_OBSERVE>>}

\* C28: every recorded transition is an exit from a state other than S5_EXITED
\* through falsification or stop-loss, or one of: OBSERVE to WARMUP, OBSERVE
\* or WARMUP to POSITION_ON, POSITION_ON to VALIDATING, VALIDATING to
\* REALIZING, REALIZING to EXITED, WARMUP, POSITION_ON or VALIDATING to
\* OBSERVE; so VALIDATING is entered from POSITION_ON only, REALIZING from
\* VALIDATING only, and REALIZING never moves back to OBSERVE.
C28_RecordedTransitions ==
    \A i \in 1..Len(history) :
        LET r == history[i]
        IN /\ \/ /\ r.from_state # S5_EXITED /\ r.to_state = S5_EXITED
                 /\ r.reason = ExitReason
              \/ <<r.from_state, r.to_state>> \in StepPairs
           /\ r.to_state = S3_VALIDATING => r.from_state = S2_POSITION_ON
           /\ r.to_state = S4_REALIZING => r.from_state = S3_VALIDATING
           /\ r.from_state = S4_REALIZING => r.to_state # S0_OBSERVE

\* a retreat from VALIDATING, then the way up to REALIZING, then a call with a
\* score below the threshold and no position, which closed the position
C28_Witness ==
    /\ Len(history) = 5
    /\ history[1].from_state = S3_VALIDATING /\ history[1].to_state = S0_OBSERVE
    /\ history[4].to_state = S4_REALIZING
    /\ LastRecord.from_state = S4_REALIZING /\ LastRecord.to_state = S5_EXITED
    /\ LastRecord.reason # ExitReason
    /\ last.conviction_score < TradableThreshold /\ ~last.has_position

(***************************************************************************)
(* Properties of the plan of ExecutionAgent.create_plan                     *)
(***************************************************************************)
\* the sizes and the action the plan is to have at a conviction score
ExpectedSizing(total) ==
    IF total >= 75 THEN <<2000, 1200, "TRADE">>
    ELSE IF total >= 60 THEN <<1000, 500, "TRADE_SMALL">>
    ELSE <<200, 0, "TRACK_ONLY">>

\* C25: for every conviction score and every thesis with two or more
\* falsification conditions create_plan returns a plan with base size 0.20, alt
\* size 0.12 and action TRADE at a score of 75 or more, 0.10, 0.05 and
\* TRADE_SMALL from 60 to 74, 0.02, 0.00 and TRACK_ONLY at 59 or less; the
\* status is "ready" exactly at 60 or more, which is exactly when the action is
\* not TRACK_ONLY; the base and alt scenarios carry falsification conditions 0
\* and 1 as invalidation conditions.
C25_PlanSizing ==
    (Planned /\ Len(thesis.falsification_conditions) >= 2)
        => /\ ~Raised(execution)
           /\ LET plan == execution.trade_plan
              IN /\ <<plan.base_case.position_size_pct, plan.alt_case.position_size_pct,
                      execution.action>> = ExpectedSizing(conviction.score)
                 /\ plan.status = "ready" <=> conviction.score >= 60
                 /\ plan.status = "ready" <=> execution.action # "TRACK_ONLY"
                 /\ plan.status \in {"ready", "watch_only"}
                 /\ plan.base_case.invalidation_condition = thesis.falsification_conditions[1]
                 /\ plan.alt_case.invalidation_condition = thesis.falsification_conditions[2]

\* a plan at a score of exactly 75 from a thesis with three conditions
C25_Witness ==
    /\ Planned /\ Len(thesis.falsification_conditions) = 3
    /\ conviction.score = 75
    /\ ~Raised(execution) /\ execution.action = "TRADE"
    /\ execution.trade_plan.base_case.position_size_pct = 2000
    /\ execution.trade_plan.alt_case.invalidation_condition = thesis.falsification_conditions[2]

\* plans at the scores 59, 60 and 74
C25_WitnessTrackOnly ==
    Planned /\ ~Raised(execution) /\ conviction.score = 59 /\ execution.action = "TRACK_ONLY"

C25_WitnessSmallAt60 ==
    Planned /\ ~Raised(execution) /\ conviction.score = 60 /\ execution.action = "TRADE_SMALL"

C25_WitnessSmallAt74 ==
    Planned /\ ~Raised(execution) /\ conviction.score = 74 /\ execution.action = "TRADE_SMALL"

(***************************************************************************)
(* Properties of validate called on its own result                         *)
(***************************************************************************)
Revalidated == revalidated # NoResult

\* C29: validate called on the events a first validate call returned returns
\* the same events in the same order and no conflict record.
C29_ValidateIdempotent ==
    Revalidated
        => /\ revalidated.events = result.events
           /\ revalidated.conflicts = <<>>

\* the first call dropped an event and recorded a conflict, and returned two
\* events of one reconciliation key with another event between them; the
\* second call returned the three as they were
C29_Witness ==
    /\ Revalidated /\ Len(events) = 4 /\ Len(result.events) = 3
    /\ Len(result.conflicts) = 1
    /\ key_func(result.events[1]) = key_func(result.events[3])
    /\ key_func(result.events[1]) # key_func(result.events[2])
    /\ Len(revalidated.events) = 3

(***************************************************************************)
(* Properties of ResearchAgent.analyze                                     *)
(***************************************************************************)
Analyzed == research # NoResult

\* the pending checks of the caller followed by the four standard tasks
Candidates == supplied_checks \o StandardTasks

\* the position at which an item is first seen in a list
FirstSeen(list, item) ==
    CHOOSE i \in 1..Len(list) : list[i] = item /\ \A j \in 1..(i - 1) : list[j] # item

\* C23: the verification checklist of analyze has at most 5 items and no
\* duplicates and is the first-seen-order deduplication of the caller's pending
\* checks followed by the four standard tasks, cut to 5: its items are taken
\* from that list in the order in which they are first seen there, none that is
\* seen before a listed one is left out, and only the cut shortens it.  Every
\* item the caller supplied precedes every item that only the standard tasks
\* bring, and with 5 or more distinct checks of the caller the standard tasks
\* bring nothing.
C23_VerificationChecklist ==
    Analyzed
        => LET checklist == research.must_verify
               n == Len(checklist)
               distinct == SeqRange(Candidates)
               supplied == SeqRange(supplied_checks)
           IN /\ research.thesis.verification_tasks = checklist
              /\ n <= 5
              /\ \A i, j \in 1..n : checklist[i] = checklist[j] => i = j
              /\ SeqRange(checklist) \subseteq distinct
              /\ \A i, j \in 1..n :
                    i < j => FirstSeen(Candidates, checklist[i]) < FirstSeen(Candidates, checklist[j])
              /\ \A x \in distinct :
                    (\E i \in 1..n : FirstSeen(Candidates, x) < FirstSeen(Candidates, checklist[i]))
                        => x \in SeqRange(checklist)
              /\ n = (IF Cardinality(distinct) < 5 THEN Cardinality(distinct) ELSE 5)
              /\ \A i, j \in 1..n :
                    (checklist[i] \notin supplied /\ checklist[j] \in supplied) => j < i
              /\ Cardinality(supplied) >= 5 => SeqRange(checklist) \subseteq supplied

\* five checks of the caller, one of them given twice: the four distinct ones
\* come first and the first standard task fills the fifth place
C23_Witness ==
    /\ Analyzed /\ Len(supplied_checks) = 5 /\ Cardinality(SeqRange(supplied_checks)) = 4
    /\ Len(research.must_verify) = 5
    /\ research.must_verify[4] \in SeqRange(supplied_checks)
    /\ research.must_verify[5] = StandardTasks[1]

\* seven checks of the caller, six of them distinct: no standard task is listed
C23_WitnessFull ==
    /\ Analyzed /\ Len(supplied_checks) = 7
    /\ Len(research.must_verify) = 5
    /\ SeqRange(research.must_verify) \subseteq SeqRange(supplied_checks)

\* the number of C-tier events handed to analyze
CTierCount == Cardinality({i \in 1..Len(events) : events[i].evidence_level = "C"})

\* C24: for one event or more, the thesis of analyze has has_changed = true
\* exactly when the caller supplied at least one pending check and strictly
\* more than half of the events are C-tier (a single C-tier event with one
\* pending check gives true); change_reason is non-empty exactly when
\* has_changed is true.
C24_HasChanged ==
    (Analyzed /\ Len(events) >= 1)
        => /\ research.thesis.has_changed
                 <=> (Len(supplied_checks) >= 1 /\ 2 * CTierCount > Len(events))
           /\ research.thesis.change_reason # "" <=> research.thesis.has_changed

(***************************************************************************)
(* Properties of RiskAgent.assess                                          *)
(***************************************************************************)
Assessed == assessed_plan # NoResult

\* the three risks assess reports, each with its hedge
RiskPairs == {EarningsGapRisk, EvidenceQualityRisk, LowConvictionRisk}

\* an earnings release lies within the seven days from the instant of the call
EarningsAhead ==
    \E i \in 1..Len(events) :
        /\ events[i].event_type = "earnings_release"
        /\ utcnow <= events[i].occurred_at.utc
        /\ events[i].occurred_at.utc <= utcnow + Days(7)

\* C26: the hedge list of assess is never empty: it holds one hedge per
\* reported risk (an earnings release within seven days, a C-tier fraction
\* above 0.4, a conviction score below 60) and holds the single default hedge
\* exactly when no risk was reported; max_position_pct never exceeds 0.20.
C26_HedgesAndCap ==
    Assessed
        => /\ risk.hedges # <<>>
           /\ risk.risks # <<>>
                 => /\ Len(risk.hedges) = Len(risk.risks)
                    /\ \A i \in 1..Len(risk.risks) :
                          \E pair \in RiskPairs :
                              pair.risk = risk.risks[i] /\ pair.hedge = risk.hedges[i]
                    /\ \A i, j \in 1..Len(risk.risks) : risk.risks[i] = risk.risks[j] => i = j
           /\ risk.hedges = <<DefaultHedge>> <=> risk.risks = <<>>
           /\ DefaultHedge \in SeqRange(risk.hedges) <=> risk.risks = <<>>
           /\ EarningsGapRisk.risk \in SeqRange(risk.risks) <=> EarningsAhead
           /\ events # <<>>
                 => (EvidenceQualityRisk.risk \in SeqRange(risk.risks)
                        <=> 10 * CTierCount > 4 * Len(events))
           /\ LowConvictionRisk.risk \in SeqRange(risk.risks) <=> conviction.score < 60
           /\ risk.max_position_pct <= 2000

\* no risk was reported for a plan whose base size is 0.50: the default hedge
\* alone, and the size cut to 0.20
C26_Witness ==
    /\ Assessed /\ risk.risks = <<>> /\ risk.hedges = <<DefaultHedge>>
    /\ assessed_plan.base_case.position_size_pct = 5000
    /\ risk.max_position_pct = 2000
    /\ events # <<>>

\* all three risks were reported, each with its hedge
C26_WitnessThree ==
    /\ Assessed /\ Len(risk.risks) = 3 /\ Len(risk.hedges) = 3
    /\ risk.max_position_pct = 200

(***************************************************************************)
(* Properties of Position                                                  *)
(***************************************************************************)
\* the fields a refused call is to leave alone
Holdings(p) == <<p.quantity, p.average_cost, p.realized_pnl, p.status>>

\* C30: from a default Position, through any sequence of open, add, reduce and
\* mark_to_market calls, returning or raising, the status is OPEN exactly when
\* the quantity is above 0; a reduce that brings the quantity to 0 sets the
\* status CLOSED; a CLOSED position can be opened again; a call that raises
\* leaves quantity, average cost, realized P&L and status as they were.
C30_PositionStatus ==
    [][/\ position.status = OPEN <=> position.quantity > 0
       /\ position'.status = OPEN <=> position'.quantity > 0
       /\ (/\ position_call'.method = "reduce" /\ position_raised' = NoRaise
           /\ position'.quantity = 0)
             => position'.status = CLOSED
       /\ (/\ position.status = CLOSED /\ position_call'.method = "open"
           /\ position_call'.quantity > 0 /\ position_call'.price > 0)
             => /\ position_raised' = NoRaise
                /\ position'.status = OPEN
                /\ position'.quantity = position_call'.quantity
       /\ position_raised' # NoRaise => Holdings(position') = Holdings(position)]_vars

\* a position that was opened, reduced to nothing at another price and opened
\* again by the third call; the fourth call raised
C30_Witness ==
    /\ position.status = OPEN /\ position.quantity > 0
    /\ position.opened_at = 3 /\ position.closed_at = NoTime
    /\ position.realized_pnl # <<0, 1>>
    /\ position_call.at = 4 /\ position_raised # NoRaise

\* a position closed by a reduce to quantity 0
C30_WitnessClosed ==
    /\ position.status = CLOSED /\ position.quantity = 0
    /\ position_call.method = "reduce" /\ position_raised = NoRaise
    /\ position.closed_at = position_call.at

====
